---- MODULE Spec2Model ----
(***************************************************************************)
(* reolink-aio: the HTTP session of reolink_aio.api.Host.                  *)
(*                                                                         *)
(* Host.send, Host.login, Host._login_try_ports, Host.logout and           *)
(* Host.subscription_send are coroutines.  Each task runs a stack of       *)
(* coroutine frames; `running` is the task the event loop is executing.    *)
(* A task gives up the loop only where the code awaits something that is   *)
(* not ready: a locked asyncio.Lock, the HTTP request, the body read.      *)
(* Everything between two such points is executed without interleaving,    *)
(* as asyncio does.                                                        *)
(*                                                                         *)
(* Time: `lease` holds self._lease_time - datetime.now() in seconds, so    *)
(* the passing of time (Tick) lowers it and `now` itself is not kept.      *)
(*                                                                         *)
(* The actions of the program read and write the program's variables and   *)
(* the device's.  What the properties need to remember of a run (call,     *)
(* marks, chain) is written by the Obs... formulas, which the              *)
(* specification SpecSeq joins to the actions; they never constrain a      *)
(* step.                                                                   *)
(***************************************************************************)
EXTENDS Integers, Sequences, FiniteSets, TLC

\* ------------------------------------------------------------------ bounds
\* calls of send / login / logout / subscription_send made in one run
MaxCalls == 2
\* tokens the device issues in one run
MaxTok == 3
\* requests the device fails or answers with something else than success:
\* with one caller, with two callers
MaxFaults == 2
MaxFaultsConc == 2

\* ------------------------------------------------- constants of the program
GuardWindow == 5
LoginWindow == 300
ShortBody == 500
BadGateway == 502
HttpsPort == 443
HttpPort == 80
\* expire_session: self._lease_time = now - 5 s
ExpiredLease == -5

\* the tasks that call the Host
Tasks == {1, 2}
Null == 0
\* self._lease_time is None
NoLease == -100000
\* param["token"] = "null" (the literal sent with Login); NoTok: no token key
NullLiteral == -1
NoTok == -2

\* The steps of time.
TickSteps == {3300, 295}
\* Below this the remaining lease is not told apart (every test is against
\* +5 or +300).
LeaseFloor == ExpiredLease

VARIABLES
    token,        \* self._token (Null or a token name)
    lease,        \* self._lease_time - now, NoLease when _lease_time is None
    port,         \* self._port (Null when unknown)
    use_https,    \* self._use_https: "none", "yes", "no"
    closed,       \* self._aiohttp_session.closed
    login_mutex,  \* self._login_mutex: [owner, q]
    send_mutex,   \* self._send_mutex: [owner, q]
    running,      \* the task the event loop runs, 0 when all are suspended
    stack,        \* per task: the coroutine frames, innermost last
    ret,          \* per task: what the innermost finished coroutine gave
    issued,       \* device: number of tokens issued so far
    faults,       \* device: number of requests not answered with success so far
    ncalls,       \* number of calls made by the callers so far
    call,         \* observation: the state the outermost call started in
    marks,        \* observation: what happened since the last call ended
    chain,        \* observation: the requests of the outermost call in the
                  \* order they were sent, each with what came back
    retired,      \* observation: the tokens for which the Host has
                  \* transmitted Logout, or which it has cleared
    bc_mutex,     \* Baichuan: self._mutex, [owner, q]
    transport,    \* Baichuan: self._transport (Null or the connection)
    protocol,     \* Baichuan: self._protocol (Null or the connection)
    logged_in,    \* Baichuan: self._logged_in
    nonce,        \* Baichuan: self._nonce
    aes_key,      \* Baichuan: self._aes_key
    user_hash,    \* Baichuan: self._user_hash
    password_hash,\* Baichuan: self._password_hash
    protocols,    \* per connection made so far: the protocol object
                  \* (expected_cmd_id, receive_future) and the transport
                  \* (closing, lost)
    wire,         \* observation: the Baichuan messages written, in order
    dec,          \* _decrypt: its arguments and its result
    conv,         \* utils: the dictionary converted last and what it gave
    channels,     \* self._channels: the list of the active channels
    nvr_num_channels,          \* self._nvr_num_channels
    GetChannelStatus_present,  \* self._GetChannelStatus_present
    api_version,  \* self._api_version_get<family>, per capability family
    host_settings,\* self._time_settings, self._ntp_settings (None or a block)
    cache,        \* per channel and per cache dictionary of the Host: the
                  \* entry (Absent when the dictionary has no such key)
    last,         \* observation: the last operation on the cache, its
                  \* arguments and how it ended
    sent          \* observation: the bodies handed to send(), in order

progVars == <<token, lease, port, use_https, closed, login_mutex, send_mutex,
              running, stack, ret>>
envVars == <<issued, faults, ncalls>>
obsVars == <<call, marks, chain, retired>>
bcVars == <<bc_mutex, transport, protocol, logged_in, nonce, aes_key, user_hash,
            password_hash, protocols, wire, dec, conv>>
cacheVars == <<channels, nvr_num_channels, GetChannelStatus_present, api_version,
               host_settings, cache, last, sent>>
vars == <<progVars, envVars, obsVars, bcVars, cacheVars>>

\* _decrypt has not been called.
NoDec == [n |-> 0, len_header |-> 0, tag |-> "", enc_type |-> "", out |-> ""]

\* ---------------------------------------------------------------- responses
NoResp == [status |-> 0, ctype |-> "", len |-> 0, body |-> "", leaseTime |-> 0, name |-> 0]

Resp(st, ct, n, b, lt) ==
    [status |-> st, ctype |-> ct, len |-> n, body |-> b, leaseTime |-> lt, name |-> 0]

\* What the device may answer.  body: "ok" a JSON array with code 0 (for
\* Login: with Token.leaseTime and Token.name), "noName" code 0 with
\* Token.leaseTime but no Token.name, "null" the JSON text null, "loginerr" a
\* JSON array with code 1 and one of the three login-error details,
\* "garbage" text that is no JSON, "data" the bytes of an image.
\* len is len(data): one below the limit of 500, or the limit.
\* leaseTime is read from the answer of a Login only.
Responses ==
    { Resp(200, "text/html", 500, "ok", 3600),
      Resp(200, "text/html", 499, "noName", 3600),
      Resp(200, "text/html", 499, "loginerr", 0),
      Resp(200, "text/html", 500, "loginerr", 0),
      Resp(BadGateway, "text/html", 499, "garbage", 0),
      Resp(BadGateway, "text/html", 499, "loginerr", 0),
      Resp(200, "text/html", 500, "garbage", 0),
      Resp(404, "text/html", 499, "garbage", 0),
      Resp(200, "text/html", 499, "null", 0),
      Resp(200, "image/jpeg", 500, "data", 0) }

\* The answers kept when two tasks run: success, bad gateway, login error.
BasicResponses ==
    { Resp(200, "text/html", 500, "ok", 3600),
      Resp(BadGateway, "text/html", 499, "garbage", 0),
      Resp(200, "text/html", 499, "loginerr", 0) }

\* Exceptions the HTTP client raises instead of answering.
NetErrors == {"ClientConnectorError", "TimeoutError"}

\* json.loads(data) succeeds
Decodable(r) == r.body \in {"ok", "noName", "null", "loginerr"}

\* one of the three login-error details is in data
HasLoginDetail(r) == r.body = "loginerr"

\* ------------------------------------------------------------------ frames
Frame(fn, pc, cmd, get, ect, retry, ptok, owned) ==
    [fn |-> fn, pc |-> pc, cmd |-> cmd, get |-> get, ect |-> ect, retry |-> retry,
     ptok |-> ptok, owned |-> owned, resp |-> NoResp]

SendFrame(cmd, get, ect, retry, ptok) ==
    Frame("send", "entry", cmd, get, ect, retry, ptok, FALSE)
LoginFrame == Frame("login", "entry", "", FALSE, "none", FALSE, NoTok, FALSE)
TryPortsFrame == Frame("try_ports", "entry", "", FALSE, "none", FALSE, NoTok, FALSE)
\* Faulty variant: logout(True) acquires the login mutex its caller holds
\* (C32 detects it).
LogoutFrameUnowned(owned) == Frame("logout", "entry", "", FALSE, "none", FALSE, NoTok, FALSE)
\* Faulty variant: logout() never acquires the login mutex (C5 detects it).
LogoutFrameOwned(owned) == Frame("logout", "entry", "", FALSE, "none", FALSE, NoTok, TRUE)
LogoutFrame(owned) == Frame("logout", "entry", "", FALSE, "none", FALSE, NoTok, owned)
SubFrame == Frame("sub_send", "entry", "", FALSE, "none", FALSE, NoTok, FALSE)

NoRet == [kind |-> "none", val |-> "", fn |-> "", cmd |-> "", retry |-> FALSE, resp |-> NoResp]
Returned(f, v) ==
    [kind |-> "return", val |-> v, fn |-> f.fn, cmd |-> f.cmd, retry |-> f.retry, resp |-> f.resp]
Raised(f, e) ==
    [kind |-> "raise", val |-> e, fn |-> f.fn, cmd |-> f.cmd, retry |-> f.retry, resp |-> f.resp]

Depth(t) == Len(stack[t])
Top(t) == stack[t][Len(stack[t])]
At(t, fn, pc) == running = t /\ Depth(t) > 0 /\ Top(t).fn = fn /\ Top(t).pc = pc
Suspended(t, fn, pc) == running = 0 /\ Depth(t) > 0 /\ Top(t).fn = fn /\ Top(t).pc = pc

SetTop(t, f) == [stack EXCEPT ![t] = [@ EXCEPT ![Len(@)] = f]]
Push(t, f, callee) == [stack EXCEPT ![t] = Append([@ EXCEPT ![Len(@)] = f], callee)]
Pop(t) == [stack EXCEPT ![t] = SubSeq(@, 1, Len(@) - 1)]

\* The innermost coroutine of t ends with r; its caller goes on in the same
\* step of the loop.
Finish(t, r) ==
    /\ stack' = Pop(t)
    /\ ret' = [ret EXCEPT ![t] = r]
    /\ running' = t

\* Faulty variant: a lock that is taken whether or not it is held (C6 detects
\* it).
AcquireAtOnce(m, t) == [m EXCEPT !.owner = t]

\* asyncio.Lock: acquire() takes a free lock at once, else queues the caller;
\* release() hands the lock to the first waiter.
FreeMutex == [owner |-> 0, q |-> <<>>]
Acquire(m, t) == IF m.owner = 0 THEN [m EXCEPT !.owner = t] ELSE [m EXCEPT !.q = Append(@, t)]
Release(m) == IF m.q = <<>> THEN [m EXCEPT !.owner = 0] ELSE [owner |-> Head(m.q), q |-> Tail(m.q)]

\* ------------------------------------------------------- session properties
\* Faulty variant: the guard window is counted as active (C3 detects it).
session_active_inclusive ==
    token # Null /\ lease # NoLease /\ lease >= GuardWindow

session_active ==
    token # Null /\ lease # NoLease /\ lease > GuardWindow

\* Faulty variants: the lease is not looked at (C1 detects it); the login is
\* never skipped (C2 detects it).
TokenStillValid == token # Null
NeverStillValid == FALSE

\* login(): the test that skips the login
LoginStillValid ==
    token # Null /\ lease # NoLease /\ lease > LoginWindow

expire_session(l) == IF l # NoLease THEN ExpiredLease ELSE l

Elapse(l, d) == IF l = NoLease THEN l ELSE IF l - d < LeaseFloor THEN LeaseFloor ELSE l - d

\* -------------------------------------------------------------------- send
\* Faulty variant: send() logs in for no command (C34 detects it).
IsLoginLogoutAlways(f) == TRUE

\* is_login_logout of send()
IsLoginLogout(f) == (~f.get) /\ f.cmd \in {"Login", "Logout"}

\* Faulty variant: no exemption for Logout (C10 detects it).
LoginErrAnyCommand(f, r) == HasLoginDetail(r)

\* login_err of send()
LoginErr(f, r) ==
    IF f.get THEN HasLoginDetail(r) ELSE HasLoginDetail(r) /\ f.cmd # "Logout"

Outcome(a, v) == [act |-> a, val |-> v]

\* Faulty variant: the status is looked at before the content type (C11
\* detects it).
ClassifyStatusFirst(f, r) ==
    IF r.len < ShortBody /\ r.ctype = "text/html" /\ LoginErr(f, r)
    THEN IF IsLoginLogout(f) \/ f.retry
         THEN Outcome("raise", "CredentialsInvalidError")
         ELSE Outcome("retry", "")
    ELSE IF r.status = BadGateway /\ ~f.retry
    THEN Outcome("retry", "")
    ELSE IF f.ect \notin {"none", "json"} /\ r.ctype # f.ect
    THEN Outcome("raise", "InvalidContentTypeError")
    ELSE IF r.status >= 400 \/ (IsLoginLogout(f) /\ r.status # 200)
    THEN Outcome("raise", "ApiError")
    ELSE IF f.ect = "json"
    THEN IF ~Decodable(r)
         THEN IF ~f.retry THEN Outcome("retry", "")
              ELSE Outcome("raise", "InvalidContentTypeError")
         ELSE IF r.body = "null" THEN Outcome("return", "None")
         ELSE Outcome("return", "json")
    ELSE Outcome("return", "data")

\* Faulty variant: status 502 is tried again whether or not this is the
\* retry already (C7 detects it).
ClassifyRetryAgain(f, r) ==
    IF r.len < ShortBody /\ r.ctype = "text/html" /\ LoginErr(f, r)
    THEN IF IsLoginLogout(f) \/ f.retry
         THEN Outcome("raise", "CredentialsInvalidError")
         ELSE Outcome("retry", "")
    ELSE IF f.ect \notin {"none", "json"} /\ r.ctype # f.ect
    THEN Outcome("raise", "InvalidContentTypeError")
    ELSE IF r.status = BadGateway
    THEN Outcome("retry", "")
    ELSE IF r.status >= 400 \/ (IsLoginLogout(f) /\ r.status # 200)
    THEN Outcome("raise", "ApiError")
    ELSE IF f.ect = "json"
    THEN IF ~Decodable(r)
         THEN IF ~f.retry THEN Outcome("retry", "")
              ELSE Outcome("raise", "InvalidContentTypeError")
         ELSE IF r.body = "null" THEN Outcome("return", "None")
         ELSE Outcome("return", "json")
    ELSE Outcome("return", "data")

\* send(): what the code does with the response r of frame f, from the
\* login-error test to the final return.  act "raise": the exception val is
\* raised inside the try; "retry": expire_session() and send(..., True);
\* "return": val is returned ("None" after expire_session()).
Classify(f, r) ==
    IF r.len < ShortBody /\ r.ctype = "text/html" /\ LoginErr(f, r)
    THEN IF IsLoginLogout(f) \/ f.retry
         THEN Outcome("raise", "CredentialsInvalidError")
         ELSE Outcome("retry", "")
    ELSE IF f.ect \notin {"none", "json"} /\ r.ctype # f.ect
    THEN Outcome("raise", "InvalidContentTypeError")
    ELSE IF r.status = BadGateway /\ ~f.retry
    THEN Outcome("retry", "")
    ELSE IF r.status >= 400 \/ (IsLoginLogout(f) /\ r.status # 200)
    THEN Outcome("raise", "ApiError")
    ELSE IF f.ect = "json"
    THEN IF ~Decodable(r)
         THEN IF ~f.retry THEN Outcome("retry", "")
              ELSE Outcome("raise", "InvalidContentTypeError")
         ELSE IF r.body = "null" THEN Outcome("return", "None")
         ELSE Outcome("return", "json")
    ELSE Outcome("return", "data")

\* Faulty variant: the exception is raised again without expire_session()
\* (C9 detects it).
SendRaiseNoExpire(t, f, e) ==
    /\ lease' = lease
    /\ Finish(t, Raised(f, e))

\* An except clause of send(): expire_session(), then raise again.
SendRaise(t, f, e) ==
    /\ lease' = expire_session(lease)
    /\ Finish(t, Raised(f, e))

\* send(): the session is made anew when closed; login() unless the command
\* is Login or Logout.
SendEntry(t) ==
    /\ At(t, "send", "entry")
    /\ closed' = FALSE
    /\ IF IsLoginLogout(Top(t))
       THEN stack' = SetTop(t, [Top(t) EXCEPT !.pc = "param"])
       ELSE stack' = Push(t, [Top(t) EXCEPT !.pc = "after_login"], LoginFrame)
    /\ UNCHANGED <<token, lease, port, use_https, login_mutex, send_mutex,
                   running, ret, envVars>>

\* send(): `if not await self.login(): return None` (outside the try).
SendAfterLogin(t) ==
    /\ At(t, "send", "after_login")
    /\ CASE ret[t].kind = "raise" -> Finish(t, Raised(Top(t), ret[t].val))
         [] ret[t].kind = "return" /\ ret[t].val = "False" ->
                Finish(t, Returned(Top(t), "None"))
         [] OTHER ->
                /\ stack' = SetTop(t, [Top(t) EXCEPT !.pc = "param"])
                /\ ret' = [ret EXCEPT ![t] = NoRet]
                /\ UNCHANGED running
    /\ UNCHANGED <<token, lease, port, use_https, closed, login_mutex, send_mutex,
                   envVars>>

\* send(): the token parameter, then `async with self._send_mutex`.
SendParam(t) ==
    /\ At(t, "send", "param")
    /\ LET f == Top(t)
           tk == IF f.cmd = "Login" THEN NullLiteral
                 ELSE IF token # Null THEN token ELSE f.ptok
       IN  /\ send_mutex' = Acquire(send_mutex, t)
           /\ IF send_mutex.owner = 0
              THEN /\ stack' = SetTop(t, [f EXCEPT !.ptok = tk, !.pc = "request"])
                   /\ running' = t
              ELSE /\ stack' = SetTop(t, [f EXCEPT !.ptok = tk, !.pc = "wait_send_mutex"])
                   /\ running' = 0
    /\ UNCHANGED <<token, lease, port, use_https, closed, login_mutex, ret, envVars>>

\* The waiter the lock was handed to goes on.
SendMutexGranted(t) ==
    /\ Suspended(t, "send", "wait_send_mutex")
    /\ send_mutex.owner = t
    /\ running' = t
    /\ stack' = SetTop(t, [Top(t) EXCEPT !.pc = "request"])
    /\ UNCHANGED <<token, lease, port, use_https, closed, login_mutex, send_mutex,
                   ret, envVars>>

\* send(): session.get / session.post is started, the task waits for it.
SendRequest(t) ==
    /\ At(t, "send", "request")
    /\ stack' = SetTop(t, [Top(t) EXCEPT !.pc = "await_response"])
    /\ running' = 0
    /\ UNCHANGED <<token, lease, port, use_https, closed, login_mutex, send_mutex,
                   ret, envVars>>

\* The answer of a device that works: status 200 and the JSON or the image
\* asked for.
GoodAnswer(f, r) == r.status = 200 /\ r.body = (IF f.get THEN "data" ELSE "ok")

\* The response as the frame f gets it: a Login answered with code 0 and a
\* name carries a new token name; the lease time is in a Login answer only.
Answer(f, r0) ==
    IF f.cmd = "Login" /\ r0.body \in {"ok", "noName"}
    THEN [r0 EXCEPT !.name = IF r0.body = "ok" THEN issued + 1 ELSE 0]
    ELSE [r0 EXCEPT !.leaseTime = 0]

\* The answers a request can get: a Login answer without a token name is an
\* answer to Login, an image an answer to the GET, and the JSON text null an
\* answer to a request whose answer is decoded.
Suits(f, r0) ==
    /\ r0.body = "noName" => f.cmd = "Login"
    /\ r0.body = "data" => f.get
    /\ r0.body = "null" => f.ect = "json"

\* The request returns a response: the send mutex is released and the body
\* is awaited.
DeviceRespond(t, r0, budget) ==
    /\ Suspended(t, "send", "await_response")
    /\ Suits(Top(t), r0)
    /\ LET f == Top(t)
           r == Answer(f, r0)
       IN  /\ r.name # 0 => issued < MaxTok
           /\ issued' = IF r.name # 0 THEN issued + 1 ELSE issued
           /\ (~GoodAnswer(f, r)) => faults < budget
           /\ faults' = IF GoodAnswer(f, r) THEN faults ELSE faults + 1
           /\ stack' = SetTop(t, [f EXCEPT !.pc = "read", !.resp = r])
    /\ send_mutex' = Release(send_mutex)
    /\ UNCHANGED <<token, lease, port, use_https, closed, login_mutex,
                   running, ret, ncalls>>

\* The request raises: the send mutex is released, the except clause runs.
DeviceError(t, e, budget) ==
    /\ Suspended(t, "send", "await_response")
    /\ faults < budget
    /\ faults' = faults + 1
    /\ send_mutex' = Release(send_mutex)
    /\ SendRaise(t, Top(t), e)
    /\ UNCHANGED <<token, port, use_https, closed, login_mutex, issued, ncalls>>

\* response.read() / response.text() is done.
SendReadBody(t) ==
    /\ Suspended(t, "send", "read")
    /\ running' = t
    /\ stack' = SetTop(t, [Top(t) EXCEPT !.pc = "classify"])
    /\ UNCHANGED <<token, lease, port, use_https, closed, login_mutex, send_mutex,
                   ret, envVars>>

\* send(): from the login-error test to the return.
SendClassify(t) ==
    /\ At(t, "send", "classify")
    /\ LET f == Top(t)
           o == Classify(f, f.resp)
       IN  CASE o.act = "raise" -> SendRaise(t, f, o.val)
             [] o.act = "retry" ->
                    /\ lease' = expire_session(lease)
                    /\ stack' = Push(t, [f EXCEPT !.pc = "after_retry"],
                                     SendFrame(f.cmd, f.get, f.ect, TRUE, f.ptok))
                    /\ UNCHANGED <<running, ret>>
             [] OTHER ->
                    /\ lease' = IF o.val = "None" THEN expire_session(lease) ELSE lease
                    /\ Finish(t, Returned(f, o.val))
    /\ UNCHANGED <<token, port, use_https, closed, login_mutex, send_mutex, envVars>>

\* send(): `return await self.send(body, param, expected_content_type, True)`
\* inside the try.
SendAfterRetry(t) ==
    /\ At(t, "send", "after_retry")
    /\ LET f == [Top(t) EXCEPT !.resp = ret[t].resp] IN
       IF ret[t].kind = "raise"
       THEN SendRaise(t, f, ret[t].val)
       ELSE /\ Finish(t, Returned(f, ret[t].val))
            /\ UNCHANGED lease
    /\ UNCHANGED <<token, port, use_https, closed, login_mutex, send_mutex, envVars>>

\* ------------------------------------------------------------------- login
\* login(): without a port or a scheme the ports are tried; else the login
\* mutex is acquired.
LoginEntry(t) ==
    /\ At(t, "login", "entry")
    /\ IF port = Null \/ use_https = "none"
       THEN /\ stack' = Push(t, [Top(t) EXCEPT !.pc = "after_try_ports"], TryPortsFrame)
            /\ UNCHANGED <<login_mutex, running>>
       ELSE /\ login_mutex' = Acquire(login_mutex, t)
            /\ IF login_mutex.owner = 0
               THEN /\ stack' = SetTop(t, [Top(t) EXCEPT !.pc = "check"])
                    /\ running' = t
               ELSE /\ stack' = SetTop(t, [Top(t) EXCEPT !.pc = "wait_login_mutex"])
                    /\ running' = 0
    /\ UNCHANGED <<token, lease, port, use_https, closed, send_mutex,
                   ret, envVars>>

LoginMutexGranted(t) ==
    /\ Suspended(t, "login", "wait_login_mutex")
    /\ login_mutex.owner = t
    /\ running' = t
    /\ stack' = SetTop(t, [Top(t) EXCEPT !.pc = "check"])
    /\ UNCHANGED <<token, lease, port, use_https, closed, login_mutex, send_mutex,
                   ret, envVars>>

\* login(): `return await self._login_try_ports()`
LoginAfterTryPorts(t) ==
    /\ At(t, "login", "after_try_ports")
    /\ Finish(t, [ret[t] EXCEPT !.fn = "login"])
    /\ UNCHANGED <<token, lease, port, use_https, closed, login_mutex, send_mutex, envVars>>

\* login(): with the mutex held, return True when the session is still valid
\* for more than 300 s, else logout(True).
LoginCheck(t) ==
    /\ At(t, "login", "check")
    /\ IF LoginStillValid
       THEN /\ login_mutex' = Release(login_mutex)
            /\ Finish(t, Returned(Top(t), "True"))
       ELSE /\ stack' = Push(t, [Top(t) EXCEPT !.pc = "after_logout"], LogoutFrame(TRUE))
            /\ UNCHANGED <<login_mutex, running, ret>>
    /\ UNCHANGED <<token, lease, port, use_https, closed, send_mutex, envVars>>

\* login(): after logout(True), the Login command is sent; an exception of
\* logout leaves through the finally clause.
LoginAfterLogout(t) ==
    /\ At(t, "login", "after_logout")
    /\ IF ret[t].kind = "raise"
       THEN /\ login_mutex' = Release(login_mutex)
            /\ Finish(t, Raised(Top(t), ret[t].val))
       ELSE /\ stack' = Push(t, [Top(t) EXCEPT !.pc = "after_send"],
                             SendFrame("Login", FALSE, "json", FALSE, NoTok))
            /\ ret' = [ret EXCEPT ![t] = NoRet]
            /\ UNCHANGED <<login_mutex, running>>
    /\ UNCHANGED <<token, lease, port, use_https, closed, send_mutex, envVars>>

\* Faulty variant: no clear_token() when the token name is missing, after
\* _lease_time was set (C4 detects it).
LoginResultNoClear(r) ==
    IF r.body = "ok"
    THEN [token |-> r.name, lease |-> r.leaseTime, val |-> "True"]
    ELSE IF r.body = "noName"
    THEN [token |-> token, lease |-> r.leaseTime, val |-> "False"]
    ELSE [token |-> token, lease |-> lease, val |-> "False"]

\* login(): what the answer json_data does to (token, lease) and the result.
\* code 0: _lease_time is set, then _token; a missing key raises in between
\* and the except clause calls clear_token().
LoginResult(r) ==
    IF r.body = "ok"
    THEN [token |-> r.name, lease |-> r.leaseTime, val |-> "True"]
    ELSE IF r.body = "noName"
    THEN [token |-> Null, lease |-> NoLease, val |-> "False"]
    ELSE [token |-> token, lease |-> lease, val |-> "False"]

\* Faulty variant: login() catches nothing (C8 detects it).
LoginCaughtNone == {}

\* login(): the exceptions of send() that give False
LoginCaught == {"ApiError", "ClientConnectorError", "InvalidContentTypeError"}

LoginAfterSend(t) ==
    /\ At(t, "login", "after_send")
    /\ login_mutex' = Release(login_mutex)
    /\ LET f == [Top(t) EXCEPT !.resp = ret[t].resp] IN
       CASE ret[t].kind = "raise" /\ ret[t].val \notin LoginCaught ->
                /\ Finish(t, Raised(f, ret[t].val))
                /\ UNCHANGED <<token, lease>>
         [] ret[t].kind = "raise" \/ ret[t].val = "None" ->
                /\ Finish(t, Returned(f, "False"))
                /\ UNCHANGED <<token, lease>>
         [] OTHER ->
                LET res == LoginResult(ret[t].resp) IN
                /\ token' = res.token
                /\ lease' = res.lease
                /\ Finish(t, Returned(f, res.val))
    /\ UNCHANGED <<port, use_https, closed, send_mutex, envVars>>

\* _login_try_ports(): HTTPS on 443 first
TryPortsFirst(t) ==
    /\ At(t, "try_ports", "entry")
    /\ port' = HttpsPort
    /\ use_https' = "yes"
    /\ stack' = Push(t, [Top(t) EXCEPT !.pc = "after_first"], LoginFrame)
    /\ UNCHANGED <<token, lease, closed, login_mutex, send_mutex,
                   running, ret, envVars>>

\* _login_try_ports(): `if await self.login(): return True`, else HTTP on 80
TryPortsAfterFirst(t) ==
    /\ At(t, "try_ports", "after_first")
    /\ CASE ret[t].kind = "raise" ->
                /\ Finish(t, Raised(Top(t), ret[t].val))
                /\ UNCHANGED <<port, use_https>>
         [] ret[t].val = "True" ->
                /\ Finish(t, Returned(Top(t), "True"))
                /\ UNCHANGED <<port, use_https>>
         [] OTHER ->
                /\ port' = HttpPort
                /\ use_https' = "no"
                /\ stack' = Push(t, [Top(t) EXCEPT !.pc = "after_second"], LoginFrame)
                /\ ret' = [ret EXCEPT ![t] = NoRet]
                /\ UNCHANGED running
    /\ UNCHANGED <<token, lease, closed, login_mutex, send_mutex, envVars>>

\* Faulty variant: the port and the scheme are unknown again when the
\* attempt on port 80 did not authenticate (C40 detects it).
TryPortsAfterSecondForgets(t) ==
    /\ At(t, "try_ports", "after_second")
    /\ Finish(t, [ret[t] EXCEPT !.fn = "try_ports"])
    /\ IF ret[t].kind = "return" /\ ret[t].val = "True"
       THEN UNCHANGED <<port, use_https>>
       ELSE port' = Null /\ use_https' = "none"
    /\ UNCHANGED <<token, lease, closed, login_mutex, send_mutex, envVars>>

\* _login_try_ports(): `return await self.login()`
TryPortsAfterSecond(t) ==
    /\ At(t, "try_ports", "after_second")
    /\ Finish(t, [ret[t] EXCEPT !.fn = "try_ports"])
    /\ UNCHANGED <<token, lease, port, use_https, closed, login_mutex, send_mutex, envVars>>

\* ------------------------------------------------------------------ logout
\* logout(): the login mutex is acquired unless the caller owns it.
LogoutEntry(t) ==
    /\ At(t, "logout", "entry")
    /\ IF Top(t).owned
       THEN /\ stack' = SetTop(t, [Top(t) EXCEPT !.pc = "body"])
            /\ UNCHANGED <<login_mutex, running>>
       ELSE /\ login_mutex' = Acquire(login_mutex, t)
            /\ IF login_mutex.owner = 0
               THEN /\ stack' = SetTop(t, [Top(t) EXCEPT !.pc = "body"])
                    /\ running' = t
               ELSE /\ stack' = SetTop(t, [Top(t) EXCEPT !.pc = "wait_login_mutex"])
                    /\ running' = 0
    /\ UNCHANGED <<token, lease, port, use_https, closed, send_mutex,
                   ret, envVars>>

LogoutMutexGranted(t) ==
    /\ Suspended(t, "logout", "wait_login_mutex")
    /\ login_mutex.owner = t
    /\ running' = t
    /\ stack' = SetTop(t, [Top(t) EXCEPT !.pc = "body"])
    /\ UNCHANGED <<token, lease, port, use_https, closed, login_mutex, send_mutex,
                   ret, envVars>>

\* logout(): clear_token(), then `await self._aiohttp_session.close()`.
LogoutClear(t) ==
    /\ token' = Null
    /\ lease' = NoLease
    /\ closed' = TRUE
    /\ stack' = SetTop(t, [Top(t) EXCEPT !.pc = "closing"])
    /\ ret' = [ret EXCEPT ![t] = NoRet]
    /\ running' = 0
    /\ UNCHANGED login_mutex

\* logout(): the session is closed; the finally clause releases the mutex
\* unless the caller owns it.
LogoutClosed(t) ==
    /\ Suspended(t, "logout", "closing")
    /\ login_mutex' = IF Top(t).owned THEN login_mutex ELSE Release(login_mutex)
    /\ Finish(t, Returned(Top(t), "None"))
    /\ UNCHANGED <<token, lease, port, use_https, closed, send_mutex, envVars>>

\* logout(): `if self._token: await self.send(body, param)`
LogoutBody(t) ==
    /\ At(t, "logout", "body")
    /\ IF token # Null
       THEN /\ stack' = Push(t, [Top(t) EXCEPT !.pc = "after_send"],
                             SendFrame("Logout", FALSE, "none", FALSE, NoTok))
            /\ UNCHANGED <<token, lease, closed, login_mutex, running, ret>>
       ELSE LogoutClear(t)
    /\ UNCHANGED <<port, use_https, send_mutex, envVars>>

\* logout(): an exception of send() leaves through the finally clause, which
\* only releases the mutex.
LogoutAfterSend(t) ==
    /\ At(t, "logout", "after_send")
    /\ IF ret[t].kind = "raise"
       THEN /\ login_mutex' = IF Top(t).owned THEN login_mutex ELSE Release(login_mutex)
            /\ Finish(t, Raised(Top(t), ret[t].val))
            /\ UNCHANGED <<token, lease, closed>>
       ELSE LogoutClear(t)
    /\ UNCHANGED <<port, use_https, send_mutex, envVars>>

\* ------------------------------------------------------- subscription_send
\* subscription_send(): a session of its own, the post under the send mutex.
SubEntry(t) ==
    /\ At(t, "sub_send", "entry")
    /\ send_mutex' = Acquire(send_mutex, t)
    /\ stack' = SetTop(t, [Top(t) EXCEPT !.pc =
            IF send_mutex.owner = 0 THEN "await_response" ELSE "wait_send_mutex"])
    /\ running' = 0
    /\ UNCHANGED <<token, lease, port, use_https, closed, login_mutex,
                   ret, envVars>>

SubMutexGranted(t) ==
    /\ Suspended(t, "sub_send", "wait_send_mutex")
    /\ send_mutex.owner = t
    /\ stack' = SetTop(t, [Top(t) EXCEPT !.pc = "await_response"])
    /\ UNCHANGED <<token, lease, port, use_https, closed, login_mutex, send_mutex,
                   running, ret, envVars>>

\* The post returns or raises: the mutex is released; the text is returned
\* for status 200, None otherwise.
SubRespond(t, v) ==
    /\ Suspended(t, "sub_send", "await_response")
    /\ send_mutex' = Release(send_mutex)
    /\ Finish(t, Returned(Top(t), v))
    /\ UNCHANGED <<token, lease, port, use_https, closed, login_mutex, envVars>>

\* ----------------------------------------------------------------- callers
\* The commands the callers send: a POST that expects JSON, and the snapshot
\* GET (body None) that expects image/jpeg.
PostCommand == [cmd |-> "GetDevInfo", get |-> FALSE, ect |-> "json"]
SnapCommand == [cmd |-> "Snap", get |-> TRUE, ect |-> "image/jpeg"]

\* A task that runs nothing calls a coroutine of the Host.
Start(t, frame) ==
    /\ running = 0
    /\ stack[t] = <<>>
    /\ ncalls < MaxCalls
    /\ ncalls' = ncalls + 1
    /\ stack' = [stack EXCEPT ![t] = <<frame>>]
    /\ ret' = [ret EXCEPT ![t] = NoRet]
    /\ running' = t
    /\ UNCHANGED <<token, lease, port, use_https, closed, login_mutex, send_mutex,
                   issued, faults>>

CallSend(t, c) == Start(t, SendFrame(c.cmd, c.get, c.ect, FALSE, NoTok))
CallLogin(t) == Start(t, LoginFrame)
CallLogout(t) == Start(t, LogoutFrame(FALSE))
CallSubscriptionSend(t) == Start(t, SubFrame)

\* The outermost coroutine of t has ended: its caller has the result.
Return(t) ==
    /\ running = t
    /\ stack[t] = <<>>
    /\ running' = 0
    /\ ret' = [ret EXCEPT ![t] = NoRet]
    /\ UNCHANGED <<token, lease, port, use_https, closed, login_mutex, send_mutex,
                   stack, envVars>>

\* expire_session() called by the user of the Host
CallExpireSession ==
    /\ running = 0
    /\ lease # expire_session(lease)
    /\ lease' = expire_session(lease)
    /\ UNCHANGED <<token, port, use_https, closed, login_mutex, send_mutex,
                   running, stack, ret, envVars>>

\* clear_token() called by the user of the Host
CallClearToken ==
    /\ running = 0
    /\ token # Null
    /\ token' = Null
    /\ lease' = NoLease
    /\ UNCHANGED <<port, use_https, closed, login_mutex, send_mutex,
                   running, stack, ret, envVars>>

Idle == running = 0 /\ \A t \in Tasks : stack[t] = <<>>

\* The remaining lease at which a test of the code changes its result, and
\* the floor: the instants that are told apart.
LeaseMarks == {LoginWindow, GuardWindow, LeaseFloor}

\* Time passes between two calls, up to the next such instant.
Tick(d) ==
    /\ Idle
    /\ lease # NoLease
    /\ Elapse(lease, d) # lease
    /\ Elapse(lease, d) \in LeaseMarks
    /\ lease' = Elapse(lease, d)
    /\ UNCHANGED <<token, port, use_https, closed, login_mutex, send_mutex,
                   running, stack, ret, envVars>>

\* ------------------------------------------------------------ observations
\* What happened since the last call ended: expire_session() of the user on a
\* Host that is logged in; the last call was a send() that raised.
NoMarks == [expired |-> FALSE, failed |-> FALSE]

\* The record of the outermost call in progress, taken when it starts.
NoCall ==
    [op |-> "none", entryTok |-> Null, entryPort |-> Null, fresh |-> FALSE,
     expired |-> FALSE, afterFail |-> FALSE, issuedAt |-> 0]

NewCall(op) ==
    [op |-> op, entryTok |-> token, entryPort |-> port,
     fresh |-> (token # Null /\ lease # NoLease /\ lease > 300),
     expired |-> marks.expired, afterFail |-> marks.failed, issuedAt |-> issued]

Kind(f) == IF IsLoginLogout(f) THEN f.cmd ELSE "cmd"

\* One transmission: what was sent, and what came back.
Transmission(f) ==
    [kind |-> Kind(f), get |-> f.get, ect |-> f.ect, tok |-> f.ptok, retry |-> f.retry,
     port |-> port, resp |-> NoResp]

\* What came back when the request raised e.
ErrorEvent(e) == Resp(0, "", 0, e, 0)

Answered(c, r) == [c EXCEPT ![Len(c)] = [@ EXCEPT !.resp = r]]

ObsStart(op) ==
    /\ call' = NewCall(op)
    /\ chain' = <<>>
    /\ marks' = NoMarks
    /\ UNCHANGED <<retired, bcVars, cacheVars>>

ObsReturn(t) ==
    /\ call' = NoCall
    /\ chain' = <<>>
    /\ marks' = [NoMarks EXCEPT !.failed = (call.op = "send" /\ ret[t].kind = "raise")]
    /\ UNCHANGED <<retired, bcVars, cacheVars>>

ObsRequest(t) ==
    /\ chain' = Append(chain, Transmission(Top(t)))
    /\ UNCHANGED <<call, marks>>
    /\ UNCHANGED <<retired, bcVars, cacheVars>>

ObsRespond(t, r0) ==
    /\ chain' = Answered(chain, Answer(Top(t), r0))
    /\ UNCHANGED <<call, marks>>
    /\ UNCHANGED <<retired, bcVars, cacheVars>>

ObsError(e) ==
    /\ chain' = Answered(chain, ErrorEvent(e))
    /\ UNCHANGED <<call, marks>>
    /\ UNCHANGED <<retired, bcVars, cacheVars>>

\* expire_session() of the user on a Host that is logged in
ObsExpire ==
    /\ marks' = [marks EXCEPT !.expired = (token # Null)]
    /\ UNCHANGED <<call, chain>>
    /\ UNCHANGED <<retired, bcVars, cacheVars>>

\* clear_token() of the user: the Host is not logged in any more
ObsClear ==
    /\ marks' = [marks EXCEPT !.expired = FALSE]
    /\ UNCHANGED <<call, chain>>
    /\ UNCHANGED <<retired, bcVars, cacheVars>>

\* The step is not recorded, and the Baichuan client is not involved.
Quiet == UNCHANGED <<obsVars, bcVars, cacheVars>>

\* ----------------------------------------------------------------- Baichuan
\* Bounds of the Baichuan runs: connections made, calls made, and faults of
\* the device and the network.
MaxConn == 2
MaxBcCalls == 3
MaxBcFaults == 2
MaxBcFaultsConc == 1
MaxDecrypts == 2

RETRY_ATTEMPTS == 3
CmdLogin == 1
CmdLogout == 2
CmdSetPort == 36
CmdGetPorts == 37
ShortHeader == 20
LongHeader == 24

\* md5_str_modern of the nonce with the password (cut to 16 characters), with
\* the user name, and with the password: three digests that differ from each
\* other and from digest to nonce.
Key(n) == 10 + n
UserHash(n) == 20 + n
PasswordHash(n) == 30 + n

\* What a reply carries: the length of its header, the encryption-type tag at
\* bytes 16..18, and whether its body has a nonce element.
NoData == [len_header |-> 0, tag |-> "", nonce |-> Null]
Data(h, tag) == [len_header |-> h, tag |-> tag, nonce |-> Null]

\* The protocol object and the transport of one connection.
NewProtocol ==
    [expected_cmd_id |-> Null, receive_future |-> "none", closing |-> FALSE, lost |-> FALSE]

BcFrame(fn, pc, cmd_id, enc_type, message_class, body, retry) ==
    [fn |-> fn, pc |-> pc, cmd |-> cmd_id, enc_type |-> enc_type,
     message_class |-> message_class, body |-> body, retry |-> retry,
     key |-> Null, hash |-> Null, conn |-> Null, resp |-> NoData]

\* send(cmd_id, body, enc_type, message_class, retry); body: is there one
BcSendFrame(cmd_id, enc_type, message_class, body, retry) ==
    BcFrame("Baichuan.send", "entry", cmd_id, enc_type, message_class, body, retry)
BcLoginFrame == BcFrame("Baichuan.login", "entry", 0, "", "", FALSE, 0)
GetNonceFrame == BcFrame("Baichuan._get_nonce", "entry", 0, "", "", FALSE, 0)
BcLogoutFrame == BcFrame("Baichuan.logout", "entry", 0, "", "", FALSE, 0)

\* The exceptions of the library, all of them subclasses of ReolinkError.
ReolinkErrors ==
    {"ReolinkError", "ReolinkConnectionError", "ReolinkTimeoutError",
     "InvalidContentTypeError", "InvalidParameterError", "UnexpectedDataError"}

\* A message as it is written to the transport.
Message(f, c) ==
    [conn |-> c, cmd |-> f.cmd, message_class |-> f.message_class,
     enc_type |-> f.enc_type, body |-> f.body, key |-> f.key, hash |-> f.hash,
     logged_in |-> logged_in, answer |-> "none"]

\* What became of the message written last: "reply", "timeout" or "reset".
Marked(w, a) == [w EXCEPT ![Len(w)] = [@ EXCEPT !.answer = a]]

\* Faulty variant: the scheme of a short header is taken from the request
\* (C20 detects it).
decrypt_by_request(len_header, tag, enc_type) ==
    IF enc_type = "BC" THEN "legacy"
    ELSE IF enc_type = "AES" THEN "aes"
    ELSE IF tag = "00dd" THEN "plain"
    ELSE "InvalidContentTypeError"

\* _decrypt: the scheme the body is decrypted with, or the exception
decrypt(len_header, tag, enc_type) ==
    IF (len_header = ShortHeader /\ tag \in {"01dd", "12dd"})
          \/ (len_header = LongHeader /\ enc_type = "BC")
    THEN "legacy"
    ELSE IF (len_header = ShortHeader /\ tag \in {"02dd", "03dd"})
          \/ (len_header = LongHeader /\ enc_type = "AES")
    THEN "aes"
    ELSE IF tag = "00dd" THEN "plain"
    ELSE "InvalidContentTypeError"

\* _decrypt and _aes_decrypt: what send() gets for the reply r
Decrypted(f, r) ==
    LET how == decrypt(r.len_header, r.tag, f.enc_type) IN
    IF how = "aes" /\ aes_key = Null THEN "InvalidParameterError" ELSE how

keyVars == <<nonce, aes_key, user_hash, password_hash>>
connVars == <<transport, protocol, protocols>>

\* A caller starts a coroutine of the Baichuan client.
BcStart(t, frame) ==
    /\ running = 0
    /\ stack[t] = <<>>
    /\ ncalls < MaxBcCalls
    /\ ncalls' = ncalls + 1
    /\ stack' = [stack EXCEPT ![t] = <<frame>>]
    /\ ret' = [ret EXCEPT ![t] = NoRet]
    /\ running' = t
    /\ UNCHANGED <<faults, bc_mutex, logged_in, keyVars, connVars, wire>>

\* set_port_enabled: send(cmd_id=36, body=xml); get_ports: send(cmd_id=37)
CallSetPort(t) == BcStart(t, BcSendFrame(CmdSetPort, "AES", "1464", TRUE, RETRY_ATTEMPTS))
CallGetPorts(t) == BcStart(t, BcSendFrame(CmdGetPorts, "AES", "1464", FALSE, RETRY_ATTEMPTS))
CallBcLogin(t) == BcStart(t, BcLoginFrame)
CallBcLogout(t) == BcStart(t, BcLogoutFrame)

\* send(): `retry = retry - 1`, and login() first for a command above 2
\* when not logged in.
BcSendEntry(t) ==
    /\ At(t, "Baichuan.send", "entry")
    /\ LET f == [Top(t) EXCEPT !.retry = @ - 1] IN
       IF ~logged_in /\ f.cmd > 2
       THEN stack' = Push(t, [f EXCEPT !.pc = "after_login"], BcLoginFrame)
       ELSE stack' = SetTop(t, [f EXCEPT !.pc = "encrypt"])
    /\ UNCHANGED <<running, ret, faults, ncalls, bc_mutex, logged_in, keyVars,
                   connVars, wire>>

\* send(): an exception of login() is not caught.
BcSendAfterLogin(t) ==
    /\ At(t, "Baichuan.send", "after_login")
    /\ IF ret[t].kind = "raise"
       THEN Finish(t, Raised(Top(t), ret[t].val))
       ELSE /\ stack' = SetTop(t, [Top(t) EXCEPT !.pc = "encrypt"])
            /\ ret' = [ret EXCEPT ![t] = NoRet]
            /\ UNCHANGED running
    /\ UNCHANGED <<faults, ncalls, bc_mutex, logged_in, keyVars, connVars, wire>>

\* send(): the header and the encrypted body are made, then
\* `async with self._mutex`.
BcSendEncrypt(t) ==
    /\ At(t, "Baichuan.send", "encrypt")
    /\ LET f == Top(t) IN
       IF f.message_class \notin {"1465", "1464"}
             \/ (f.body /\ f.enc_type \notin {"BC", "AES"})
             \/ (f.body /\ f.enc_type = "AES" /\ aes_key = Null)
       THEN /\ Finish(t, Raised(f, "InvalidParameterError"))
            /\ UNCHANGED bc_mutex
       ELSE LET g == [f EXCEPT !.key = IF f.body /\ f.enc_type = "AES" THEN aes_key ELSE Null]
            IN  /\ bc_mutex' = Acquire(bc_mutex, t)
                /\ ret' = ret
                /\ IF bc_mutex.owner = 0
                   THEN /\ stack' = SetTop(t, [g EXCEPT !.pc = "locked"])
                        /\ running' = t
                   ELSE /\ stack' = SetTop(t, [g EXCEPT !.pc = "wait_mutex"])
                        /\ running' = 0
    /\ UNCHANGED <<faults, ncalls, logged_in, keyVars, connVars, wire>>

\* The tasks that wait for the lock.
Waiting(m) == {m.q[i] : i \in 1..Len(m.q)}

\* The waiter the lock was handed to goes on.  A task that waits for a lock
\* it holds itself is never handed it: asyncio.Lock is not reentrant.
BcMutexGranted(t) ==
    /\ Suspended(t, "Baichuan.send", "wait_mutex")
    /\ bc_mutex.owner = t
    /\ t \notin Waiting(bc_mutex)
    /\ running' = t
    /\ stack' = SetTop(t, [Top(t) EXCEPT !.pc = "locked"])
    /\ UNCHANGED <<ret, faults, ncalls, bc_mutex, logged_in, keyVars, connVars, wire>>

\* send(): is there a connection that is not closing
Connected == transport # Null /\ protocol # Null /\ ~protocols[transport].closing

\* send(): without one, `await self._loop.create_connection(...)`.
BcSendConnect(t) ==
    /\ At(t, "Baichuan.send", "locked")
    /\ ~Connected
    /\ stack' = SetTop(t, [Top(t) EXCEPT !.pc = "connecting"])
    /\ running' = 0
    /\ UNCHANGED <<ret, faults, ncalls, bc_mutex, logged_in, keyVars, connVars, wire>>

\* The connection is made: transport and protocol are the new ones.
BcConnected(t) ==
    /\ Suspended(t, "Baichuan.send", "connecting")
    /\ Len(protocols) < MaxConn
    /\ protocols' = Append(protocols, NewProtocol)
    /\ transport' = Len(protocols) + 1
    /\ protocol' = Len(protocols) + 1
    /\ stack' = SetTop(t, [Top(t) EXCEPT !.pc = "connected"])
    /\ running' = t
    /\ UNCHANGED <<ret, faults, ncalls, bc_mutex, logged_in, keyVars, wire>>

\* The connection is not made (timeout, ConnectionResetError or OSError):
\* send() raises ReolinkConnectionError.
BcConnectFailed(t, budget) ==
    /\ Suspended(t, "Baichuan.send", "connecting")
    /\ faults < budget
    /\ faults' = faults + 1
    /\ bc_mutex' = Release(bc_mutex)
    /\ Finish(t, Raised(Top(t), "ReolinkConnectionError"))
    /\ UNCHANGED <<ncalls, logged_in, keyVars, connVars, wire>>

\* send(): is a request pending on the protocol
SlotTaken(p) == p.expected_cmd_id # Null \/ p.receive_future # "none"

\* send(): with the pending slot free the message is written and the reply
\* awaited; with the slot taken ReolinkError is raised.
BcSendWrite(t) ==
    /\ \/ At(t, "Baichuan.send", "locked") /\ Connected
       \/ At(t, "Baichuan.send", "connected")
    /\ LET f == Top(t) IN
       IF SlotTaken(protocols[protocol])
       THEN /\ bc_mutex' = Release(bc_mutex)
            /\ Finish(t, Raised(f, "ReolinkError"))
            /\ UNCHANGED <<protocols, wire>>
       ELSE /\ protocols' = [protocols EXCEPT ![protocol] =
                                [@ EXCEPT !.expected_cmd_id = f.cmd,
                                          !.receive_future = "pending"]]
            /\ wire' = Append(wire, Message(f, transport))
            /\ stack' = SetTop(t, [f EXCEPT !.pc = "await_reply", !.conn = protocol])
            /\ running' = 0
            /\ UNCHANGED <<ret, bc_mutex>>
    /\ UNCHANGED <<faults, ncalls, logged_in, keyVars, transport, protocol>>

\* The replies of the device: to the header-only request for the nonce a
\* legacy-encrypted body with the nonce, to the other requests a reply with
\* the long header; and as faults a reply with an unknown tag and a reply to
\* the nonce request that has no nonce.
GoodReply(f, c) ==
    IF f.message_class = "1465"
    THEN [Data(ShortHeader, "12dd") EXCEPT !.nonce = c]
    ELSE Data(LongHeader, "0000")
BadReplies == {Data(ShortHeader, "04dd"), Data(ShortHeader, "01dd")}

\* The reply to the request of t arrives.
BcReply(t, budget) ==
    /\ Suspended(t, "Baichuan.send", "await_reply")
    /\ ~protocols[Top(t).conn].closing
    /\ \E good \in BOOLEAN :
          /\ ~good => faults < budget
          /\ faults' = IF good THEN faults ELSE faults + 1
          /\ \E r \in IF good THEN {GoodReply(Top(t), Top(t).conn)} ELSE BadReplies :
                stack' = SetTop(t, [Top(t) EXCEPT !.pc = "reply", !.resp = r])
    /\ running' = t
    /\ UNCHANGED <<ret, ncalls, bc_mutex, logged_in, keyVars, connVars>>
    /\ wire' = Marked(wire, "reply")

\* No reply within 15 s.
BcTimeout(t, budget) ==
    /\ Suspended(t, "Baichuan.send", "await_reply")
    /\ faults < budget
    /\ faults' = faults + 1
    /\ stack' = SetTop(t, [Top(t) EXCEPT !.pc = "timeout"])
    /\ running' = t
    /\ UNCHANGED <<ret, ncalls, bc_mutex, logged_in, keyVars, connVars>>
    /\ wire' = Marked(wire, "timeout")

\* Connection c is lost: reset by the device, or closed after
\* transport.close().
ConnectionLost(c, budget) ==
    /\ running = 0
    /\ ~protocols[c].lost
    /\ ~protocols[c].closing => faults < budget
    /\ faults' = IF protocols[c].closing THEN faults ELSE faults + 1
    /\ protocols' = [protocols EXCEPT ![c] = [@ EXCEPT !.closing = TRUE, !.lost = TRUE]]
    /\ UNCHANGED <<running, stack, ret, ncalls, bc_mutex, logged_in, keyVars,
                   transport, protocol, wire>>

\* The future of t gets the ConnectionResetError of the lost connection.
BcConnectionError(t) ==
    /\ Suspended(t, "Baichuan.send", "await_reply")
    /\ protocols[Top(t).conn].lost
    /\ stack' = SetTop(t, [Top(t) EXCEPT !.pc = "conn_error"])
    /\ running' = t
    /\ UNCHANGED <<ret, faults, ncalls, bc_mutex, logged_in, keyVars, connVars>>
    /\ wire' = Marked(wire, "reset")

\* send(): no further attempt for Logout, or when the attempts are used up
GivesUp(f) == f.retry <= 0 \/ f.cmd = 2

\* send(): `return await self.send(..., retry)` in the except clause, with
\* the mutex held and the pending slot filled.
BcSendRetry(t) ==
    /\ At(t, "Baichuan.send", "conn_error")
    /\ ~GivesUp(Top(t))
    /\ LET f == Top(t) IN
       stack' = Push(t, [f EXCEPT !.pc = "after_retry"],
                     BcSendFrame(f.cmd, f.enc_type, f.message_class, f.body, f.retry))
    /\ UNCHANGED <<running, ret, faults, ncalls, bc_mutex, logged_in, keyVars,
                   connVars, wire>>

\* What send() ends with once the finally clause has run.
BcResult(t, f) ==
    CASE f.pc = "timeout" -> Raised(f, "ReolinkTimeoutError")
      [] f.pc = "conn_error" -> Raised(f, "ReolinkConnectionError")
      [] f.pc = "after_retry" -> [ret[t] EXCEPT !.retry = f.retry]
      [] OTHER -> IF Decrypted(f, f.resp) \in {"InvalidContentTypeError", "InvalidParameterError"}
                  THEN Raised(f, Decrypted(f, f.resp))
                  ELSE Returned(f, Decrypted(f, f.resp))

\* send(): the finally clause empties the pending slot of self._protocol
\* (AttributeError when that is None by now), the mutex is released, and the
\* reply is decrypted.
BcSendFinally(t) ==
    /\ \/ At(t, "Baichuan.send", "reply")
       \/ At(t, "Baichuan.send", "timeout")
       \/ At(t, "Baichuan.send", "conn_error") /\ GivesUp(Top(t))
       \/ At(t, "Baichuan.send", "after_retry")
    /\ bc_mutex' = Release(bc_mutex)
    /\ IF protocol = Null
       THEN /\ Finish(t, Raised(Top(t), "AttributeError"))
            /\ UNCHANGED protocols
       ELSE /\ protocols' = [protocols EXCEPT ![protocol] =
                                [@ EXCEPT !.expected_cmd_id = Null,
                                          !.receive_future = "none"]]
            /\ Finish(t, BcResult(t, Top(t)))
    /\ UNCHANGED <<faults, ncalls, logged_in, keyVars, transport, protocol, wire>>

\* login(): `nonce = await self._get_nonce()`
BcLoginEntry(t) ==
    /\ At(t, "Baichuan.login", "entry")
    /\ stack' = Push(t, [Top(t) EXCEPT !.pc = "after_nonce"], GetNonceFrame)
    /\ UNCHANGED <<running, ret, faults, ncalls, bc_mutex, logged_in, keyVars,
                   connVars, wire>>

\* _get_nonce(): the header-only request
GetNonceEntry(t) ==
    /\ At(t, "Baichuan._get_nonce", "entry")
    /\ stack' = Push(t, [Top(t) EXCEPT !.pc = "after_send"],
                     BcSendFrame(CmdLogin, "BC", "1465", FALSE, RETRY_ATTEMPTS))
    /\ UNCHANGED <<running, ret, faults, ncalls, bc_mutex, logged_in, keyVars,
                   connVars, wire>>

\* _get_nonce(): the nonce of the reply is kept and the AES key derived from
\* it; UnexpectedDataError when the reply has none.
GetNonceAfterSend(t) ==
    /\ At(t, "Baichuan._get_nonce", "after_send")
    /\ LET f == [Top(t) EXCEPT !.resp = ret[t].resp] IN
       IF ret[t].kind = "raise"
       THEN /\ Finish(t, Raised(Top(t), ret[t].val))
            /\ UNCHANGED <<nonce, aes_key>>
       ELSE /\ nonce' = f.resp.nonce
            /\ IF f.resp.nonce = Null
               THEN /\ Finish(t, Raised(f, "UnexpectedDataError"))
                    /\ UNCHANGED aes_key
               ELSE /\ aes_key' = Key(f.resp.nonce)
                    /\ Finish(t, Returned(f, "nonce"))
    /\ UNCHANGED <<faults, ncalls, bc_mutex, logged_in, user_hash, password_hash,
                   connVars, wire>>

\* login(): the digests of the nonce, then the login body, which is made of
\* the digests (hash) before send() is called.
BcLoginAfterNonce(t) ==
    /\ At(t, "Baichuan.login", "after_nonce")
    /\ IF ret[t].kind = "raise"
       THEN /\ Finish(t, Raised(Top(t), ret[t].val))
            /\ UNCHANGED <<user_hash, password_hash>>
       ELSE /\ user_hash' = UserHash(ret[t].resp.nonce)
            /\ password_hash' = PasswordHash(ret[t].resp.nonce)
            /\ stack' = Push(t, [Top(t) EXCEPT !.pc = "after_send"],
                             [BcSendFrame(CmdLogin, "BC", "1464", TRUE, RETRY_ATTEMPTS)
                                 EXCEPT !.hash = UserHash(ret[t].resp.nonce)])
            /\ UNCHANGED <<running, ret>>
    /\ UNCHANGED <<faults, ncalls, bc_mutex, logged_in, nonce, aes_key, connVars, wire>>

\* Faulty variant: logged_in is set whatever the second request gave (C19
\* detects it).
BcLoginEndAlways(t) ==
    /\ logged_in' = TRUE
    /\ Finish(t, IF ret[t].kind = "raise" THEN Raised(Top(t), ret[t].val)
                 ELSE Returned(Top(t), "None"))

\* login(): `self._logged_in = True` after the second send() has returned
BcLoginEnd(t) ==
    IF ret[t].kind = "raise"
    THEN /\ Finish(t, Raised(Top(t), ret[t].val))
         /\ UNCHANGED logged_in
    ELSE /\ logged_in' = TRUE
         /\ Finish(t, Returned(Top(t), "None"))

BcLoginAfterSend(t) ==
    /\ At(t, "Baichuan.login", "after_send")
    /\ BcLoginEnd(t)
    /\ UNCHANGED <<faults, ncalls, bc_mutex, keyVars, connVars, wire>>

\* Faulty variant: the keys are kept (C17 detects it).
BcClearedNoKeys ==
    /\ logged_in' = FALSE
    /\ transport' = Null
    /\ protocol' = Null
    /\ UNCHANGED keyVars

\* logout(): the state is cleared
BcCleared ==
    /\ logged_in' = FALSE
    /\ transport' = Null
    /\ protocol' = Null
    /\ nonce' = Null
    /\ aes_key' = Null
    /\ user_hash' = Null
    /\ password_hash' = Null

\* logout(): with a connection, the Logout command is sent first.
BcLogoutEntry(t) ==
    /\ At(t, "Baichuan.logout", "entry")
    /\ IF transport # Null /\ protocol # Null
       THEN /\ stack' = Push(t, [Top(t) EXCEPT !.pc = "after_send"],
                             BcSendFrame(CmdLogout, "AES", "1464", TRUE, RETRY_ATTEMPTS))
            /\ UNCHANGED <<running, ret, logged_in, keyVars, transport, protocol>>
       ELSE /\ BcCleared
            /\ Finish(t, Returned(Top(t), "None"))
    /\ UNCHANGED <<faults, ncalls, bc_mutex, protocols, wire>>

\* logout(): a ReolinkError of send() is logged; the transport is closed and
\* `await self._protocol.close_future` waits for the connection to be lost.
BcLogoutAfterSend(t) ==
    /\ At(t, "Baichuan.logout", "after_send")
    /\ LET f == Top(t) IN
       IF ret[t].kind = "raise" /\ ret[t].val \notin ReolinkErrors
       THEN /\ Finish(t, Raised(f, ret[t].val))
            /\ UNCHANGED protocols
       ELSE IF transport = Null \/ protocol = Null
       THEN /\ Finish(t, Raised(f, "AttributeError"))
            /\ UNCHANGED protocols
       ELSE /\ protocols' = [protocols EXCEPT ![transport] = [@ EXCEPT !.closing = TRUE]]
            /\ stack' = SetTop(t, [f EXCEPT !.pc = "closing", !.conn = protocol])
            /\ running' = IF protocols[protocol].lost THEN t ELSE 0
            /\ ret' = [ret EXCEPT ![t] = NoRet]
    /\ UNCHANGED <<faults, ncalls, bc_mutex, logged_in, keyVars, transport, protocol, wire>>

\* logout(): close_future is done, the state is cleared.
BcLogoutClosed(t) ==
    /\ \/ At(t, "Baichuan.logout", "closing")
       \/ Suspended(t, "Baichuan.logout", "closing") /\ protocols[Top(t).conn].lost
    /\ BcCleared
    /\ Finish(t, Returned(Top(t), "None"))
    /\ UNCHANGED <<faults, ncalls, bc_mutex, protocols, wire>>

\* The calls of _decrypt: by send() with the encryption type of the request,
\* and by _push_callback with the default (AES), for replies with a header of
\* 20 or 24 bytes and any two bytes as the tag.
Tags ==
    {"00dd", "01dd", "02dd", "03dd", "12dd", "04dd", "11dd", "13dd", "12dc", "0000",
     "dd00", "dd01", "ffff"}

Decrypt(h, tag, e) ==
    /\ dec.n < MaxDecrypts
    /\ dec' = [n |-> dec.n + 1, len_header |-> h, tag |-> tag, enc_type |-> e,
               out |-> decrypt(h, tag, e)]
    /\ UNCHANGED <<progVars, envVars, obsVars, bc_mutex, logged_in, keyVars, connVars, wire,
                   conv, cacheVars>>

CallDecrypt ==
    \E h \in {ShortHeader, LongHeader}, tag \in Tags, e \in {"BC", "AES"} : Decrypt(h, tag, e)

push_callback ==
    \E h \in {ShortHeader, LongHeader}, tag \in Tags : Decrypt(h, tag, "AES")

\* ---------------------------------------------------------- response mapper
\* The channels of a device are 0..MaxChan.
MaxChan == 1
Chans == 0..MaxChan
\* How many times the mapper is called.
MaxMaps == 2

\* The capability families with a legacy and a V20 command.
Families == {"email", "push", "ftp", "rec", "alarm"}
\* The order in which the bodies of the requests name them.
FamilyOrder == <<"email", "push", "ftp", "rec", "alarm">>
\* self._api_version_getevents is kept with them.
Versions == Families \cup {"events"}
LegacyCmd ==
    [email |-> "GetEmail", push |-> "GetPush", ftp |-> "GetFtp", rec |-> "GetRec",
     alarm |-> "GetAudioAlarm"]
V20Cmd ==
    [email |-> "GetEmailV20", push |-> "GetPushV20", ftp |-> "GetFtpV20",
     rec |-> "GetRecV20", alarm |-> "GetAudioAlarmV20"]

\* The cache dictionaries of the Host that are keyed by channel.
Dicts ==
    {"ai_detection_states", "motion_detection_states", "osd_settings", "enc_settings",
     "isp_settings", "rtsp_mainStream", "whiteled_settings", "email_settings",
     "alarm_settings", "recording_settings", "recording_enabled", "push_settings",
     "push_enabled"}
\* A dictionary without the key, and one with the key and an empty dict.
Absent == "absent"
EmptyDict == "{}"
\* The entry of alarm_settings is the list value["Alarm"]["sens"], empty
\* without the key.
NoCache == [c \in Chans |-> [k \in Dicts |-> IF k = "alarm_settings" THEN <<>> ELSE Absent]]
\* The value of a GetTime or GetNtp response, as far as the setters write
\* it: value["Time"]["timeFmt"] and ["timeZone"], value["Ntp"]["port"] and
\* ["interval"].
Value(timeFmt, timeZone, ntpPort, interval) ==
    [none |-> FALSE, timeFmt |-> timeFmt, timeZone |-> timeZone, port |-> ntpPort,
     interval |-> interval]
DeviceValue == Value("DD/MM/YYYY", 0, 123, 1440)
\* self._time_settings = None, self._ntp_settings = None
NoValue == [DeviceValue EXCEPT !.none = TRUE]
NoSettings == [time |-> NoValue, ntp |-> NoValue]

\* No mapper call yet.
NoLast ==
    [n |-> 0, name |-> "none", json_data |-> <<>>, channel |-> 0, chs |-> <<>>,
     hows |-> <<>>]

\* Host.__init__: the channel list and the caches are empty, the versions of
\* the five families are 1 and the one of GetEvents is 0.
InitCache ==
    /\ channels = <<>>
    /\ nvr_num_channels = 0
    /\ GetChannelStatus_present = FALSE
    /\ api_version = [f \in Versions |-> IF f = "events" THEN 0 ELSE 1]
    /\ host_settings = NoSettings
    /\ cache = NoCache
    /\ last = NoLast
    /\ sent = <<>>

\* One element of a response array: data["cmd"], data["code"], whether it
\* has a "value" block, the channel the value reports and the payload.
Elem(cmd, code, shape, channel, val) ==
    [cmd |-> cmd, code |-> code, shape |-> shape, channel |-> channel, val |-> val,
     sens |-> <<>>]

\* The commands whose value reports a channel, and the dictionary each
\* command fills first.
DictOf ==
    [GetOsd |-> "osd_settings", GetEnc |-> "enc_settings", GetIsp |-> "isp_settings",
     GetRtspUrl |-> "rtsp_mainStream", GetWhiteLed |-> "whiteled_settings",
     GetEmail |-> "email_settings", GetEmailV20 |-> "email_settings",
     GetMdState |-> "motion_detection_states", GetAiState |-> "ai_detection_states",
     GetEvents |-> "ai_detection_states"]

Put(c, channel, k, v) == [c EXCEPT ![channel][k] = v]

\* The settings block of the recording or push family, as far as the Host
\* reads and writes it: the value of its enable field (Rec.schedule.enable
\* of GetRec, Rec.enable of GetRecV20, and the same for Push), and the flag
\* the mapper derives from it, `... ["enable"] == 1`.
Enabled(val) == IF val = "1" THEN "True" ELSE "False"
SettingsOf ==
    [GetRec |-> "recording_settings", GetRecV20 |-> "recording_settings",
     GetPush |-> "push_settings", GetPushV20 |-> "push_settings"]
EnabledOf ==
    [GetRec |-> "recording_enabled", GetRecV20 |-> "recording_enabled",
     GetPush |-> "push_enabled", GetPushV20 |-> "push_enabled"]

\* The body of the loop of map_channel_json_response for one element: the
\* cache afterwards and how the element ended ("error_code": continue at
\* code 1; "exception": an exception left the try block; "discarded":
\* continue at a channel mismatch; "mapped"; "mismatch": mapped, and the
\* error logged after it).
MapElement(c, data, channel) ==
    IF data.shape = "nocode" THEN [cache |-> c, how |-> "exception"]
    ELSE IF data.code = 1 THEN [cache |-> c, how |-> "error_code"]
    ELSE IF data.cmd = "GetEvents" THEN
        IF data.shape # "ok" THEN [cache |-> c, how |-> "exception"]
        ELSE IF data.channel # channel THEN [cache |-> c, how |-> "discarded"]
        ELSE [cache |-> Put(Put(c, channel, "ai_detection_states", data.val),
                            channel, "motion_detection_states", data.val),
              how |-> "mapped"]
    ELSE IF data.cmd = "GetAiState" THEN
        LET cleared == Put(c, channel, "ai_detection_states", EmptyDict) IN
        IF data.shape # "ok" THEN [cache |-> cleared, how |-> "exception"]
        ELSE IF data.channel # channel THEN [cache |-> cleared, how |-> "discarded"]
        ELSE [cache |-> Put(c, channel, "ai_detection_states", data.val), how |-> "mapped"]
    ELSE IF data.cmd = "GetWhiteLed" THEN
        IF data.shape # "ok" THEN [cache |-> c, how |-> "exception"]
        ELSE [cache |-> Put(c, channel, "whiteled_settings", data.val), how |-> "exception"]
    ELSE IF data.cmd \in {"GetOsd", "GetEnc", "GetIsp", "GetRtspUrl"} THEN
        IF data.shape # "ok" THEN [cache |-> c, how |-> "exception"]
        ELSE [cache |-> Put(c, channel, DictOf[data.cmd], data.val),
              how |-> IF data.channel # channel THEN "mismatch" ELSE "mapped"]
    ELSE IF data.cmd = "GetAlarm" THEN
        IF data.shape # "ok" THEN [cache |-> c, how |-> "exception"]
        ELSE [cache |-> Put(Put(c, channel, "alarm_settings", data.sens),
                            channel, "motion_detection_states", data.val),
              how |-> "mapped"]
    ELSE IF data.cmd \in {"GetMdState", "GetEmail", "GetEmailV20"} THEN
        IF data.shape # "ok" THEN [cache |-> c, how |-> "exception"]
        ELSE [cache |-> Put(c, channel, DictOf[data.cmd], data.val), how |-> "mapped"]
    ELSE IF data.cmd \in {"GetRec", "GetRecV20", "GetPush", "GetPushV20"} THEN
        IF data.shape # "ok" THEN [cache |-> c, how |-> "exception"]
        ELSE [cache |-> Put(Put(c, channel, SettingsOf[data.cmd], data.val),
                            channel, EnabledOf[data.cmd], Enabled(data.val)),
              how |-> "mapped"]
    ELSE [cache |-> c, how |-> "mapped"]

\* Faulty variant: the except clause raises the exception again.
HandleReraise(e) == IF e.how = "exception" THEN [e EXCEPT !.how = "propagated"] ELSE e

\* except Exception: the error is logged and the loop continues.
Handle(e) == IF e.how = "exception" THEN [e EXCEPT !.how = "raised"] ELSE e

\* An exception left the mapper.
Propagated(hows) == hows # <<>> /\ hows[Len(hows)] = "propagated"

\* map_channel_json_response(json_data, channel) from element i on: the
\* elements one after the other, each in its own try.
RECURSIVE MapChannelFrom(_, _, _, _)
MapChannelFrom(r, json_data, channel, i) ==
    IF i > Len(json_data) \/ Propagated(r.hows) THEN r
    ELSE LET e == Handle(MapElement(r.cache, json_data[i], channel)) IN
         MapChannelFrom([cache |-> e.cache, hows |-> Append(r.hows, e.how)],
                        json_data, channel, i + 1)

map_channel_json_response(c, json_data, channel) ==
    MapChannelFrom([cache |-> c, hows |-> <<>>], json_data, channel, 1)

\* map_channels_json_response(json_data, channels): nothing when the lengths
\* differ, else map_channel_json_response([data], channel) for each pair.
RECURSIVE MapChannelsFrom(_, _, _, _)
MapChannelsFrom(r, json_data, chs, i) ==
    IF i > Len(json_data) \/ Propagated(r.hows) THEN r
    ELSE LET e == map_channel_json_response(r.cache, <<json_data[i]>>, chs[i]) IN
         MapChannelsFrom([cache |-> e.cache, hows |-> r.hows \o e.hows], json_data, chs, i + 1)

\* Faulty variant: the pairs are mapped as far as the shorter list goes.
map_channels_zip(c, json_data, chs) ==
    LET m == IF Len(json_data) < Len(chs) THEN Len(json_data) ELSE Len(chs) IN
    MapChannelsFrom([cache |-> c, hows |-> <<>>], SubSeq(json_data, 1, m), SubSeq(chs, 1, m), 1)

\* map_channels_json_response(json_data, channels)
map_channels_json_response(c, json_data, chs) ==
    IF Len(json_data) # Len(chs) THEN [cache |-> c, hows |-> <<>>]
    ELSE MapChannelsFrom([cache |-> c, hows |-> <<>>], json_data, chs, 1)


\* One element of the response of the host commands: of Getchannelstatus
\* (count, status), of GetDevInfo (channelNum), of GetAbility (the versions
\* it reports and abilityChn), of GetTime and GetNtp (val).
HostElem(cmd, code, shape) ==
    [cmd |-> cmd, code |-> code, shape |-> shape, count |-> 0, status |-> <<>>,
     channelNum |-> 0, reported |-> {}, ver |-> 0, chn |-> <<>>, val |-> DeviceValue]
\* An entry of value["status"]; ok is FALSE for an entry without "online".
ChInfo(channel, online, ok) == [channel |-> channel, online |-> online, ok |-> ok]
\* An entry of abilityChn: the keys of ftp, recCfg and supportAudioAlarm it
\* has, and their ver.
ChAbility(has, v) == [has |-> has, ver |-> v]
\* channel_abilities[channel].get(k, {"ver": 1})["ver"]
VerOf(e, k) == IF k \in e.has THEN e.ver ELSE 1

\* What the Host keeps of the host commands.
HostState ==
    [channels |-> channels, num |-> nvr_num_channels, present |-> GetChannelStatus_present,
     ver |-> api_version, settings |-> host_settings, hows |-> <<>>, stop |-> FALSE]

\* for ch_info in cur_status: the channels that are online are appended, up
\* to an entry that raises.
RECURSIVE AppendOnline(_, _, _)
AppendOnline(chs, status, i) ==
    IF i > Len(status) THEN [channels |-> chs, ok |-> TRUE]
    ELSE IF ~status[i].ok THEN [channels |-> chs, ok |-> FALSE]
    ELSE AppendOnline(IF status[i].online = 1 THEN Append(chs, status[i].channel) ELSE chs,
                      status, i + 1)

\* Faulty variant: Getchannelstatus fills the channel list whenever it comes.
MapStatusAlways(h, data) ==
    IF data.shape = "nocode" THEN [h EXCEPT !.hows = Append(@, "exception")]
    ELSE IF data.code = 1 THEN [h EXCEPT !.hows = Append(@, "error_code")]
    ELSE IF data.cmd # "GetChannelstatus" THEN [h EXCEPT !.hows = Append(@, "other")]
    ELSE IF data.shape # "ok"
        THEN [h EXCEPT !.channels = <<>>, !.hows = Append(@, "exception")]
    ELSE LET a == AppendOnline(<<>>, data.status, 1) IN
         [h EXCEPT !.channels = IF data.count > 0 THEN a.channels ELSE <<>>,
                   !.num = data.count, !.present = TRUE, !.stop = TRUE,
                   !.hows = Append(@, "mapped")]

\* The first loop of map_host_json_response, one element: Getchannelstatus
\* fills the channel list when it was not seen before and the list or the
\* channel count is empty, and ends the loop.
MapStatusElement(h, data) ==
    IF data.shape = "nocode" THEN [h EXCEPT !.hows = Append(@, "exception")]
    ELSE IF data.code = 1 THEN [h EXCEPT !.hows = Append(@, "error_code")]
    ELSE IF data.cmd # "GetChannelstatus" THEN [h EXCEPT !.hows = Append(@, "other")]
    ELSE IF ~h.present /\ (h.num = 0 \/ Len(h.channels) = 0) THEN
        IF data.shape # "ok"
        THEN [h EXCEPT !.channels = <<>>, !.hows = Append(@, "exception")]
        ELSE IF data.count > 0 THEN
            IF data.status = <<>>
            THEN [h EXCEPT !.channels = <<>>, !.num = data.count,
                           !.hows = Append(@, "exception")]
            ELSE LET a == AppendOnline(<<>>, data.status, 1) IN
                 IF a.ok
                 THEN [h EXCEPT !.channels = a.channels, !.num = data.count,
                                !.present = TRUE, !.stop = TRUE,
                                !.hows = Append(@, "mapped")]
                 ELSE [h EXCEPT !.channels = a.channels, !.num = data.count,
                                !.hows = Append(@, "exception")]
        ELSE [h EXCEPT !.channels = <<>>, !.num = data.count, !.present = TRUE,
                       !.stop = TRUE, !.hows = Append(@, "mapped")]
    ELSE [h EXCEPT !.present = TRUE, !.stop = TRUE, !.hows = Append(@, "mapped")]

\* range(self._nvr_num_channels)
RECURSIVE Range(_)
Range(n) == IF n <= 0 THEN <<>> ELSE Append(Range(n - 1), n - 1)

\* GetAbility: the versions the host level reports, then for each channel of
\* the list the ftp, recCfg and supportAudioAlarm versions of abilityChn
\* (1 when the key is missing); the last channel decides.
RECURSIVE AbilityChn(_, _, _, _)
AbilityChn(ver, chn, chs, i) ==
    IF i > Len(chs) THEN [ver |-> ver, ok |-> TRUE]
    ELSE IF chs[i] + 1 > Len(chn) THEN [ver |-> ver, ok |-> FALSE]
    ELSE AbilityChn([ver EXCEPT !["ftp"] = VerOf(chn[chs[i] + 1], "ftp"),
                                !["rec"] = VerOf(chn[chs[i] + 1], "rec"),
                                !["alarm"] = VerOf(chn[chs[i] + 1], "alarm")],
                    chn, chs, i + 1)

\* Faulty variant: a version an ability reports is taken only when it is
\* higher than the one the Host has.
MapAbilityRaising(h, data) ==
    LET host == [f \in Versions |->
                    IF f \in data.reported /\ data.ver > h.ver[f] THEN data.ver ELSE h.ver[f]]
    IN  [h EXCEPT !.ver = host, !.hows = Append(@, "mapped")]

MapAbility(h, data) ==
    LET host == [f \in Versions |-> IF f \in data.reported THEN data.ver ELSE h.ver[f]]
        a == AbilityChn(host, data.chn, h.channels, 1)
    IN  IF data.shape = "nochn" THEN [h EXCEPT !.ver = host, !.hows = Append(@, "exception")]
        ELSE [h EXCEPT !.ver = a.ver,
                       !.hows = Append(@, IF a.ok THEN "mapped" ELSE "exception")]

\* The second loop of map_host_json_response, one element.  GetDevInfo fills
\* the channel list with 0..channelNum-1 when Getchannelstatus was not seen
\* and the channel count is 0.
MapHostElement(h, data) ==
    IF data.shape = "nocode" THEN [h EXCEPT !.hows = Append(@, "exception")]
    ELSE IF data.code = 1 THEN [h EXCEPT !.hows = Append(@, "error_code")]
    ELSE IF data.cmd \notin {"GetDevInfo", "GetNtp", "GetTime", "GetAbility"}
         THEN [h EXCEPT !.hows = Append(@, "other")]
    ELSE IF data.shape = "novalue" THEN [h EXCEPT !.hows = Append(@, "exception")]
    ELSE IF data.cmd = "GetDevInfo" THEN
        IF ~h.present /\ h.num = 0
        THEN [h EXCEPT !.channels = Range(data.channelNum), !.num = data.channelNum,
                       !.hows = Append(@, "mapped")]
        ELSE [h EXCEPT !.hows = Append(@, "mapped")]
    ELSE IF data.cmd = "GetNtp" THEN [h EXCEPT !.settings.ntp = data.val, !.hows = Append(@, "mapped")]
    ELSE IF data.cmd = "GetTime" THEN [h EXCEPT !.settings.time = data.val, !.hows = Append(@, "mapped")]
    ELSE MapAbility(h, data)

\* except Exception in the loops of map_host_json_response: log and continue.
HandleHost(h) ==
    IF h.hows # <<>> /\ h.hows[Len(h.hows)] = "exception"
    THEN [h EXCEPT !.hows[Len(h.hows)] = "raised"] ELSE h

RECURSIVE FirstLoop(_, _, _)
FirstLoop(h, json_data, i) ==
    IF i > Len(json_data) \/ h.stop THEN h
    ELSE FirstLoop(HandleHost(MapStatusElement(h, json_data[i])), json_data, i + 1)

RECURSIVE SecondLoop(_, _, _)
SecondLoop(h, json_data, i) ==
    IF i > Len(json_data) THEN h
    ELSE SecondLoop(HandleHost(MapHostElement(h, json_data[i])), json_data, i + 1)

\* map_host_json_response(json_data): the loop for Getchannelstatus, then
\* the loop for the other host commands.
map_host_json_response(h, json_data) == SecondLoop(FirstLoop(h, json_data, 1), json_data, 1)

\* The Host takes over what the mapping of the host commands gave.
StoreHost(h) ==
    /\ channels' = h.channels
    /\ nvr_num_channels' = h.num
    /\ GetChannelStatus_present' = h.present
    /\ api_version' = h.ver
    /\ host_settings' = h.settings

\* The responses a device gives to the channel commands: a good one for the
\* requested or for another channel, one with code 1, one without "value",
\* one without "code".
ChannelCmds ==
    {"GetEvents", "GetMdState", "GetAiState", "GetOsd", "GetEnc", "GetIsp", "GetRtspUrl",
     "GetWhiteLed"}
ChannelElems ==
    {Elem(cmd, 0, "ok", c, "a") : cmd \in ChannelCmds, c \in Chans}
    \cup {Elem(cmd, 1, "novalue", 0, "a") : cmd \in ChannelCmds}
    \cup {Elem(cmd, 0, "novalue", 0, "a") : cmd \in ChannelCmds}
    \cup {Elem("GetOsd", 0, "nocode", 0, "a")}
\* What follows them in a response array.
Followers ==
    {Elem("GetMdState", 0, "ok", 0, "b")} \cup {Elem("GetOsd", 0, "ok", c, "b") : c \in Chans}
ChannelBatches ==
    {<<>>} \cup {<<e>> : e \in ChannelElems}
    \cup {<<e, f>> : e \in ChannelElems, f \in Followers}

\* channels.extend([channel] * len(ch_body)): each channel of the list k times.
RECURSIVE Repeat(_, _)
Repeat(chs, k) ==
    IF chs = <<>> THEN <<>>
    ELSE [i \in 1..k |-> chs[1]] \o Repeat(Tail(chs), k)
\* The channel lists the callers of map_channels_json_response pass, with
\* one or two commands for each channel.
ChanLists == {chs \in {Repeat(channels, 1), Repeat(channels, 2)} : Len(chs) <= 2}

\* The responses to the host commands.
AllOnline == <<ChInfo(0, 1, TRUE), ChInfo(1, 1, TRUE)>>
StatusElems ==
    {[HostElem("GetChannelstatus", 0, "ok") EXCEPT !.count = 2, !.status = s] :
        s \in {AllOnline,
               <<ChInfo(0, 1, TRUE), ChInfo(1, 0, TRUE)>>,
               <<ChInfo(0, 0, TRUE), ChInfo(1, 0, TRUE)>>,
               <<ChInfo(1, 1, TRUE), ChInfo(0, 1, FALSE)>>,
               <<>>}}
    \cup {HostElem("GetChannelstatus", 0, "ok"),
          HostElem("GetChannelstatus", 0, "novalue"),
          HostElem("GetChannelstatus", 1, "novalue")}
DevInfoElems ==
    {[HostElem("GetDevInfo", 0, "ok") EXCEPT !.channelNum = n] : n \in 0..(MaxChan + 1)}
    \cup {HostElem("GetDevInfo", 0, "novalue")}
AbilityElems ==
    {[HostElem("GetAbility", 0, "ok") EXCEPT
         !.reported = Families, !.ver = v,
         !.chn = [c \in 1..(MaxChan + 1) |-> ChAbility({"ftp", "rec", "alarm"}, v)]] :
        v \in 0..2}
    \cup {[HostElem("GetAbility", 0, "ok") EXCEPT
         !.reported = Families, !.ver = 0,
         !.chn = [c \in 1..(MaxChan + 1) |-> ChAbility({}, 0)]]}
    \cup {[HostElem("GetAbility", 0, "nochn") EXCEPT !.reported = {"email"}, !.ver = v] :
            v \in 0..1}
    \cup {HostElem("GetAbility", 1, "novalue")}
SettingElems == {HostElem("GetTime", 0, "ok"), HostElem("GetNtp", 0, "ok")}
HostElems == StatusElems \cup DevInfoElems \cup AbilityElems \cup SettingElems
\* A response array: one element, or the answer to Getchannelstatus followed
\* by the answer to GetDevInfo or by a second answer to Getchannelstatus.
HostBatches ==
    {<<>>} \cup {<<e>> : e \in HostElems}
    \cup {<<e, f>> : e \in StatusElems,
                     f \in DevInfoElems \cup {[HostElem("GetChannelstatus", 0, "ok") EXCEPT
                                                  !.count = 2, !.status = AllOnline]}}

\* What the mapper calls leave alone.
MapQuiet == UNCHANGED <<progVars, envVars, obsVars, bcVars, sent>>

Record(name, json_data, channel, chs, hows) ==
    [n |-> last.n + 1, name |-> name, json_data |-> json_data, channel |-> channel,
     chs |-> chs, hows |-> hows]

\* self.map_host_json_response(json_data)
MapHost(json_data) ==
    /\ last.n < MaxMaps
    /\ LET h == map_host_json_response(HostState, json_data) IN
        /\ StoreHost(h)
        /\ last' = Record("map_host_json_response", json_data, 0, <<>>, h.hows)
    /\ UNCHANGED cache
    /\ MapQuiet

\* self.map_channel_json_response(json_data, channel), for a channel of the
\* list.
MapChannel(json_data, channel) ==
    /\ last.n < MaxMaps
    /\ \E i \in 1..Len(channels) : channels[i] = channel
    /\ LET r == map_channel_json_response(cache, json_data, channel) IN
        /\ cache' = r.cache
        /\ last' = Record("map_channel_json_response", json_data, channel, <<>>, r.hows)
    /\ UNCHANGED <<channels, nvr_num_channels, GetChannelStatus_present, api_version,
                   host_settings>>
    /\ MapQuiet

\* self.map_channels_json_response(json_data, channels)
MapChannels(json_data, chs) ==
    /\ last.n < MaxMaps
    /\ chs # <<>>
    /\ LET r == map_channels_json_response(cache, json_data, chs) IN
        /\ cache' = r.cache
        /\ last' = Record("map_channels_json_response", json_data, 0, chs, r.hows)
    /\ UNCHANGED <<channels, nvr_num_channels, GetChannelStatus_present, api_version,
                   host_settings>>
    /\ MapQuiet

\* --------------------------------------------------- host data and states
\* How many calls of get_host_data, get_state, get_states and of the
\* setters are made.
MaxHostCalls == 3

\* One command of a request body.
Req(cmd, channel) == [cmd |-> cmd, channel |-> channel]
\* A coroutine of the Host that fetches data or changes a setting.
HostFrame(fn, pc, args) == [fn |-> fn, pc |-> pc, args |-> args]
NoArgs == [cmd |-> ""]
HostReturned(fn) == [kind |-> "return", val |-> "None", fn |-> fn]
HostRaised(fn, e) == [kind |-> "raise", val |-> e, fn |-> fn]

\* What self.send(body, expected_content_type="json") gives: the decoded
\* response array, None, or an exception.
Json(json_data) == [kind |-> "json", json_data |-> json_data, err |-> ""]
SendFailures ==
    {[kind |-> "None", json_data |-> <<>>, err |-> "NoDataError"],
     [kind |-> "raise", json_data |-> <<>>, err |-> "InvalidContentTypeError"]}

\* The device answers the commands it knows in the order of the request; a
\* V20 command of a family it does not have is left out of the response
\* array (style "omit") or answered with the error code 1 (style "error").
RECURSIVE ChannelAnswer(_, _, _)
ChannelAnswer(body, sup, style) ==
    IF body = <<>> THEN <<>>
    ELSE LET r == body[1]
             rest == ChannelAnswer(Tail(body), sup, style)
         IN  IF \E f \in Families \ sup : r.cmd = V20Cmd[f]
             THEN IF style = "omit" THEN rest
                  ELSE <<Elem(r.cmd, 1, "novalue", r.channel, "a")>> \o rest
             ELSE <<Elem(r.cmd, 0, "ok", r.channel, "a")>> \o rest
\* The devices there are: all families in V20, none, the email family only.
Devices == {Families, {}, {"email"}}
ChannelAnswers(body) ==
    {Json(ChannelAnswer(body, sup, "omit")) : sup \in Devices}
    \cup {Json(ChannelAnswer(body, {}, "error"))}
    \cup SendFailures

\* The answers to the nine host commands of get_host_data: the channel
\* status, the device information, the time and NTP settings or an error for
\* them, and the abilities.
HostAnswers ==
    {Json(<<s, [HostElem("GetDevInfo", 0, "ok") EXCEPT !.channelNum = 1], t,
            [t EXCEPT !.cmd = "GetNtp"], a>>) :
        s \in {[HostElem("GetChannelstatus", 0, "ok") EXCEPT !.count = 2, !.status = AllOnline],
               [HostElem("GetChannelstatus", 0, "ok") EXCEPT !.count = 2,
                   !.status = <<ChInfo(0, 1, TRUE), ChInfo(1, 0, TRUE)>>]},
        t \in {HostElem("GetTime", 0, "ok"), HostElem("GetTime", 1, "novalue")},
        a \in {x \in AbilityElems : x.shape # "nochn" /\ x.ver < 2}}
    \cup SendFailures

\* The calls start from a Host at rest.
HostStart(frame) ==
    /\ running = 0
    /\ stack[1] = <<>>
    /\ ncalls < MaxHostCalls
    /\ ncalls' = ncalls + 1
    /\ stack' = [stack EXCEPT ![1] = <<frame>>]
    /\ ret' = [ret EXCEPT ![1] = NoRet]
    /\ running' = 1
    /\ sent' = <<>>
    /\ UNCHANGED <<channels, nvr_num_channels, GetChannelStatus_present, api_version,
                   host_settings, cache, last>>
    /\ UNCHANGED <<token, lease, port, use_https, closed, login_mutex, send_mutex, issued,
                   faults, obsVars, bcVars>>

\* What the steps of these coroutines leave alone.
DataQuiet ==
    UNCHANGED <<token, lease, port, use_https, closed, login_mutex, send_mutex, envVars,
                obsVars, bcVars>>

CallGetHostData == HostStart(HostFrame("get_host_data", "entry", NoArgs))
CallGetState(cmd) == HostStart(HostFrame("get_state", "entry", [cmd |-> cmd]))
CallGetStates == HostStart(HostFrame("get_states", "entry", NoArgs))

\* The body of the first request of get_host_data.
HostBody ==
    <<Req("Getchannelstatus", 0), Req("GetDevInfo", 0), Req("GetLocalLink", 0),
      Req("GetNetPort", 0), Req("GetHddInfo", 0), Req("GetUser", 0), Req("GetNtp", 0),
      Req("GetTime", 0), Req("GetAbility", 0)>>

\* body.extend(ch_body): the lists one after the other.
RECURSIVE Concat(_)
Concat(lists) == IF lists = <<>> THEN <<>> ELSE lists[1] \o Concat(Tail(lists))

\* The commands of the families, each in the variant pick names for its
\* version.
FamilyBody(ver, pick(_, _)) ==
    Concat([i \in 1..Len(FamilyOrder) |-> pick(FamilyOrder[i], ver[FamilyOrder[i]])])

\* get_host_data, for one channel: the V20 command of each family whose
\* version is 1 or more.
DiscoveryBody(channel, ver) ==
    LET pick(f, v) == IF v >= 1 THEN <<Req(V20Cmd[f], channel)>> ELSE <<>> IN
    <<Req("GetAiState", channel), Req("GetEvents", channel), Req("GetRtspUrl", channel)>>
    \o FamilyBody(ver, pick)

\* get_states, for one channel (no channel of the model has pan, tilt or
\* zoom).
StatesBody(channel, ver) ==
    LET pick(f, v) == <<Req(IF v >= 1 THEN V20Cmd[f] ELSE LegacyCmd[f], channel)>> IN
    <<Req("GetEnc", channel), Req("GetIsp", channel), Req("GetIrLights", channel),
      Req("GetPowerLed", channel), Req("GetWhiteLed", channel), Req("GetOsd", channel)>>
    \o (IF ver["events"] >= 1 THEN <<Req("GetEvents", channel)>>
        ELSE <<Req("GetAiState", channel),
               Req(IF ver["alarm"] >= 1 THEN "GetMdState" ELSE "GetAlarm", channel)>>)
    \o FamilyBody(ver, pick)

\* get_state(cmd), for one channel: the command, and for a command of a
\* family the legacy one when the version is 0, else the V20 one.
StateBody(cmd, channel, ver) ==
    IF \E f \in Families : cmd \in {LegacyCmd[f], V20Cmd[f]}
    THEN LET f == CHOOSE g \in Families : cmd \in {LegacyCmd[g], V20Cmd[g]} IN
         <<Req(IF ver[f] = 0 THEN LegacyCmd[f] ELSE V20Cmd[f], channel)>>
    ELSE IF cmd \in {"GetEnc", "GetIsp", "GetIrLights", "GetPowerLed", "GetWhiteLed",
                     "GetPtzPreset", "GetAutoFocus", "GetZoomFocus", "GetOsd", "GetAlarm"}
    THEN <<Req(cmd, channel)>>
    ELSE <<>>

\* for channel in self._channels: body.extend(ch_body)
ForChannels(chs, ver, one(_, _)) == Concat([i \in 1..Len(chs) |-> one(chs[i], ver)])

\* channels.extend([channel] * len(ch_body)): the channel of each command.
ChannelsOf(body) == [i \in 1..Len(body) |-> body[i].channel]

\* Faulty variant: the probe finds no command.
check_command_never(json_data, cmd) == FALSE

\* check_command_exists(cmd)
check_command_exists(json_data, cmd) == \E i \in 1..Len(json_data) : json_data[i].cmd = cmd

\* Faulty variant: the versions stay as GetAbility gave them.
ProbeNothing(ver, json_data) == ver

\* get_host_data, after the second response is mapped: GetEvents gives its
\* version, and a family whose version is 1 or more falls to 0 when its V20
\* command is not in the response.
Probe(ver, json_data) ==
    [f \in Versions |->
        IF f = "events" THEN (IF check_command_exists(json_data, "GetEvents") THEN 1 ELSE 0)
        ELSE IF ver[f] >= 1 /\ ~check_command_exists(json_data, V20Cmd[f]) THEN 0
        ELSE ver[f]]

\* The coroutine ends raising what send() raised, or NoDataError for None.
SendFailed(fn, a) ==
    /\ a.kind # "json"
    /\ Finish(1, HostRaised(fn, a.err))

\* get_host_data, first request: the nine host commands are sent and the
\* response is mapped.
GetHostDataHost(a) ==
    /\ At(1, "get_host_data", "entry")
    /\ sent' = Append(sent, HostBody)
    /\ \/ /\ SendFailed("get_host_data", a)
          /\ UNCHANGED <<channels, nvr_num_channels, GetChannelStatus_present, api_version,
                         host_settings, last>>
       \/ /\ a.kind = "json"
          /\ LET h == map_host_json_response(HostState, a.json_data) IN
              /\ StoreHost(h)
              /\ last' = Record("map_host_json_response", a.json_data, 0, <<>>, h.hows)
          /\ stack' = SetTop(1, [Top(1) EXCEPT !.pc = "channels"])
          /\ UNCHANGED <<running, ret>>
    /\ UNCHANGED cache
    /\ DataQuiet

\* get_host_data, second request: the discovery commands of every channel
\* are sent, the response is mapped and the versions are probed.
GetHostDataChannels(a) ==
    /\ At(1, "get_host_data", "channels")
    /\ LET body == ForChannels(channels, api_version, DiscoveryBody) IN
        /\ sent' = Append(sent, body)
        /\ \/ /\ SendFailed("get_host_data", a)
              /\ UNCHANGED <<api_version, cache, last>>
           \/ /\ a.kind = "json"
              /\ LET r == map_channels_json_response(cache, a.json_data, ChannelsOf(body)) IN
                  /\ cache' = r.cache
                  /\ last' = Record("get_host_data", a.json_data, 0, ChannelsOf(body), r.hows)
              /\ api_version' = Probe(api_version, a.json_data)
              /\ Finish(1, HostReturned("get_host_data"))
    /\ UNCHANGED <<channels, nvr_num_channels, GetChannelStatus_present, host_settings>>
    /\ DataQuiet

\* The host commands get_state knows.
HostCmds ==
    {"Getchannelstatus", "GetDevInfo", "GetLocalLink", "GetNetPort", "GetHddInfo", "GetUser",
     "GetNtp", "GetTime", "GetAbility"}

\* get_state(cmd): the command for every channel, or the host command; the
\* response is mapped per channel or for the host.  Nothing is sent for a
\* command of neither kind.
GetState(a) ==
    /\ At(1, "get_state", "entry")
    /\ LET cmd == Top(1).args.cmd
           ch_body == ForChannels(channels, api_version,
                                  LAMBDA c, v : StateBody(cmd, c, v))
           body == IF ch_body # <<>> THEN ch_body
                   ELSE IF cmd \in HostCmds THEN <<Req(cmd, 0)>> ELSE <<>>
       IN  IF body = <<>>
           THEN /\ Finish(1, HostReturned("get_state"))
                /\ UNCHANGED <<cacheVars>>
           ELSE /\ sent' = Append(sent, body)
                /\ \/ /\ SendFailed("get_state", a)
                      /\ UNCHANGED <<channels, nvr_num_channels, GetChannelStatus_present,
                                     api_version, host_settings, cache, last>>
                   \/ /\ a.kind = "json"
                      /\ ch_body # <<>>
                      /\ LET r == map_channels_json_response(cache, a.json_data,
                                                             ChannelsOf(body)) IN
                          /\ cache' = r.cache
                          /\ last' = Record("get_state", a.json_data, 0, ChannelsOf(body),
                                            r.hows)
                      /\ Finish(1, HostReturned("get_state"))
                      /\ UNCHANGED <<channels, nvr_num_channels, GetChannelStatus_present,
                                     api_version, host_settings>>
                   \/ /\ a.kind = "json"
                      /\ ch_body = <<>>
                      /\ LET h == map_host_json_response(HostState, a.json_data) IN
                          /\ StoreHost(h)
                          /\ last' = Record("get_state", a.json_data, 0, <<>>, h.hows)
                      /\ Finish(1, HostReturned("get_state"))
                      /\ UNCHANGED cache
    /\ DataQuiet

\* get_states(): the state commands of every channel are sent and the
\* response is mapped.
GetStates(a) ==
    /\ At(1, "get_states", "entry")
    /\ LET body == ForChannels(channels, api_version, StatesBody) IN
        /\ sent' = Append(sent, body)
        /\ \/ /\ SendFailed("get_states", a)
              /\ UNCHANGED <<cache, last>>
           \/ /\ a.kind = "json"
              /\ LET r == map_channels_json_response(cache, a.json_data, ChannelsOf(body)) IN
                  /\ cache' = r.cache
                  /\ last' = Record("get_states", a.json_data, 0, ChannelsOf(body), r.hows)
              /\ Finish(1, HostReturned("get_states"))
    /\ UNCHANGED <<channels, nvr_num_channels, GetChannelStatus_present, api_version,
                   host_settings>>
    /\ DataQuiet

\* The answers of the device to what the running coroutine sends next.
NextBody ==
    IF stack[1] = <<>> THEN <<>>
    ELSE IF Top(1).fn = "get_host_data" THEN ForChannels(channels, api_version, DiscoveryBody)
    ELSE IF Top(1).fn = "get_states" THEN ForChannels(channels, api_version, StatesBody)
    ELSE IF Top(1).fn = "get_state"
         THEN ForChannels(channels, api_version, LAMBDA c, v : StateBody(Top(1).args.cmd, c, v))
    ELSE <<>>
\* The answers to a host command of get_state.
StateAnswers ==
    IF NextBody # <<>> THEN ChannelAnswers(NextBody)
    ELSE {Json(<<e>>) : e \in {x \in AbilityElems : x.shape # "nochn" /\ x.ver < 2}}
         \cup SendFailures

\* ---------------------------------------------------------------- setters
\* An argument that is None.
NoInt == -100000
\* An entry of value["Alarm"]["sens"] of GetAlarm.
Preset(id, sensitivity) == [id |-> id, sensitivity |-> sensitivity]
\* The presets of a device before any is set.
DeviceSens == <<Preset(0, 10), Preset(1, 20)>>

\* One command of the body of a setter, with what the claims read of its
\* param.
SetReq(cmd, channel, param) == [cmd |-> cmd, channel |-> channel, param |-> param]
\* The arguments of the setters.
SetArgs(cmd, channel, text, a, b) ==
    [cmd |-> cmd, channel |-> channel, text |-> text, a |-> a, b |-> b]

CallSetTime(dateFmt, tzOffset) ==
    HostStart(HostFrame("set_time", "entry", SetArgs("SetTime", 0, dateFmt, tzOffset, NoInt)))
CallSetNtp(ntpPort, interval) ==
    HostStart(HostFrame("set_ntp", "entry", SetArgs("SetNtp", 0, "None", ntpPort, interval)))
CallSetWhiteLed(channel, brightness, mode) ==
    HostStart(HostFrame("set_whiteled", "entry",
                        SetArgs("SetWhiteLed", channel, "None", brightness, mode)))
CallSetSensitivity(channel, value, preset) ==
    HostStart(HostFrame("set_sensitivity", "entry",
                        SetArgs("SetAlarm", channel, "None", value, preset)))

\* await of a coroutine of the Host: the caller waits at pc.
Await(pc, callee) ==
    /\ stack' = Push(1, [Top(1) EXCEPT !.pc = pc], callee)
    /\ ret' = [ret EXCEPT ![1] = NoRet]
    /\ UNCHANGED running
\* The awaited coroutine raised: the exception leaves the caller too.
Propagates(fn) ==
    /\ ret[1].kind = "raise"
    /\ Finish(1, HostRaised(fn, ret[1].val))

\* set_time after get_host_data(): the checks in the order of the code, each
\* argument written into self._time_settings (body[0]["param"] is that
\* dictionary) before the next one is checked.
TimeChecked(t, dateFmt, tzOffset) ==
    LET t1 == IF dateFmt # "None" /\ dateFmt \in {"DD/MM/YYYY", "MM/DD/YYYY", "YYYY/MM/DD"}
              THEN [t EXCEPT !.timeFmt = dateFmt] ELSE t
    IN  IF dateFmt # "None" /\ dateFmt \notin {"DD/MM/YYYY", "MM/DD/YYYY", "YYYY/MM/DD"}
        THEN [val |-> t, err |-> "InvalidParameterError"]
        ELSE IF tzOffset = NoInt THEN [val |-> t1, err |-> ""]
        ELSE IF tzOffset < -43200 \/ tzOffset > 50400
        THEN [val |-> t1, err |-> "InvalidParameterError"]
        ELSE [val |-> [t1 EXCEPT !.timeZone = tzOffset], err |-> ""]

\* set_ntp: the port is checked and written, then for an interval the test
\* `port < 60 or port > 65535` is made on the port, which raises TypeError
\* when port is None.
NtpChecked(n, ntpPort, interval) ==
    LET n1 == IF ntpPort # NoInt THEN [n EXCEPT !.port = ntpPort] ELSE n IN
    IF ntpPort # NoInt /\ (ntpPort < 1 \/ ntpPort > 65535)
    THEN [val |-> n, err |-> "InvalidParameterError"]
    ELSE IF interval = NoInt THEN [val |-> n1, err |-> ""]
    ELSE IF ntpPort = NoInt THEN [val |-> n1, err |-> "TypeError"]
    ELSE IF ntpPort < 60 \/ ntpPort > 65535
    THEN [val |-> n1, err |-> "InvalidParameterError"]
    ELSE [val |-> [n1 EXCEPT !.interval = interval], err |-> ""]

\* channel in self._channels
InChannels(channel) == \E i \in 1..Len(channels) : channels[i] = channel

\* Faulty variant: every preset is set, whatever preset is asked for.
SensitivitiesAll(sens, value, preset) ==
    [i \in 1..Len(sens) |-> [sens[i] EXCEPT !.sensitivity = 51 - value]]

\* set_sensitivity: for setting in body[0]["param"]["Alarm"]["sens"]
Sensitivities(sens, value, preset) ==
    [i \in 1..Len(sens) |->
        IF preset = NoInt \/ preset = sens[i].id
        THEN [sens[i] EXCEPT !.sensitivity = 51 - value]
        ELSE sens[i]]

\* The first element of the response to a setting: its code, and whether it
\* has "value" with "rspCode" ("ok"), "value" without "rspCode" ("norsp"),
\* no "value" ("novalue": a device reports an error in "error") or no "code"
\* ("nocode").
SetElem(code, shape, rspCode) == [code |-> code, shape |-> shape, rspCode |-> rspCode]
SettingAnswers ==
    {Json(<<e>>) : e \in {SetElem(0, "ok", 200), SetElem(0, "ok", -1), SetElem(1, "ok", -6),
                          SetElem(1, "novalue", 0), SetElem(0, "novalue", 0),
                          SetElem(0, "norsp", 0), SetElem(0, "nocode", 0)}}
    \cup {Json(<<>>)} \cup SendFailures

\* send_setting, the try block after the response: the exception it ends
\* with, "" for none.  The message of ApiError reads value.rspCode inside
\* the try block.
SettingError(json_data) ==
    IF json_data = <<>> THEN "IndexError"
    ELSE LET e == json_data[1] IN
         IF e.shape = "nocode" THEN "UnexpectedDataError"
         ELSE IF e.code # 0
              THEN (IF e.shape = "ok" THEN "ApiError" ELSE "UnexpectedDataError")
         ELSE IF e.shape # "ok" THEN "UnexpectedDataError"
         ELSE IF e.rspCode # 200 THEN "ApiError"
         ELSE ""

\* command.replace("Set", "Get")
GetCmd ==
    [SetTime |-> "GetTime", SetNtp |-> "GetNtp", SetWhiteLed |-> "GetWhiteLed",
     SetAlarm |-> "GetAlarm", SetRec |-> "GetRec", SetRecV20 |-> "GetRecV20",
     SetPush |-> "GetPush", SetPushV20 |-> "GetPushV20"]

\* await self.send_setting(body)
AwaitSendSetting(body) ==
    Await("sent", HostFrame("send_setting", "entry", [cmd |-> body[1].cmd, body |-> body]))

\* set_time: get_host_data() comes first.
SetTimeEntry ==
    /\ At(1, "set_time", "entry")
    /\ Await("got", HostFrame("get_host_data", "entry", NoArgs))
    /\ UNCHANGED cacheVars
    /\ DataQuiet

\* set_time, after get_host_data().
SetTimeChecks ==
    /\ At(1, "set_time", "got")
    /\ \/ /\ Propagates("set_time")
          /\ UNCHANGED host_settings
       \/ /\ ret[1].kind # "raise"
          /\ host_settings.time.none
          /\ Finish(1, HostRaised("set_time", "NotSupportedError"))
          /\ UNCHANGED host_settings
       \/ /\ ret[1].kind # "raise"
          /\ ~host_settings.time.none
          /\ LET r == TimeChecked(host_settings.time, Top(1).args.text, Top(1).args.a) IN
              /\ host_settings' = [host_settings EXCEPT !.time = r.val]
              /\ IF r.err # "" THEN Finish(1, HostRaised("set_time", r.err))
                 ELSE AwaitSendSetting(<<SetReq("SetTime", 0, r.val)>>)
    /\ UNCHANGED <<channels, nvr_num_channels, GetChannelStatus_present, api_version, cache,
                   last, sent>>
    /\ DataQuiet

\* set_ntp from the second test of self._ntp_settings on.
NtpChecks ==
    IF host_settings.ntp.none
    THEN /\ Finish(1, HostRaised("set_ntp", "NotSupportedError"))
         /\ UNCHANGED host_settings
    ELSE LET r == NtpChecked(host_settings.ntp, Top(1).args.a, Top(1).args.b) IN
          /\ host_settings' = [host_settings EXCEPT !.ntp = r.val]
          /\ IF r.err # "" THEN Finish(1, HostRaised("set_ntp", r.err))
             ELSE AwaitSendSetting(<<SetReq("SetNtp", 0, r.val)>>)

\* set_ntp: get_host_data() comes first when there are no NTP settings.
SetNtpEntry ==
    /\ At(1, "set_ntp", "entry")
    /\ IF host_settings.ntp.none
       THEN /\ Await("got", HostFrame("get_host_data", "entry", NoArgs))
            /\ UNCHANGED host_settings
       ELSE NtpChecks
    /\ UNCHANGED <<channels, nvr_num_channels, GetChannelStatus_present, api_version, cache,
                   last, sent>>
    /\ DataQuiet

\* set_ntp, after get_host_data().
SetNtpChecks ==
    /\ At(1, "set_ntp", "got")
    /\ \/ /\ Propagates("set_ntp")
          /\ UNCHANGED host_settings
       \/ /\ ret[1].kind # "raise"
          /\ NtpChecks
    /\ UNCHANGED <<channels, nvr_num_channels, GetChannelStatus_present, api_version, cache,
                   last, sent>>
    /\ DataQuiet

\* set_whiteled(channel, True, brightness, mode)
SetWhiteLed ==
    /\ At(1, "set_whiteled", "entry")
    /\ LET channel == Top(1).args.channel
           brightness == Top(1).args.a
           mode == IF Top(1).args.b = NoInt THEN 1 ELSE Top(1).args.b
       IN  IF ~InChannels(channel)
           THEN Finish(1, HostRaised("set_whiteled", "InvalidParameterError"))
           ELSE IF cache[channel]["whiteled_settings"] = Absent
           THEN Finish(1, HostRaised("set_whiteled", "NotSupportedError"))
           ELSE IF brightness < 0 \/ brightness > 100 \/ mode \notin {0, 1, 3}
           THEN Finish(1, HostRaised("set_whiteled", "InvalidParameterError"))
           ELSE AwaitSendSetting(<<SetReq("SetWhiteLed", channel,
                                         [state |-> 1, mode |-> mode, bright |-> brightness])>>)
    /\ UNCHANGED cacheVars
    /\ DataQuiet

\* set_sensitivity(channel, value, preset): "sens" of the body is the list
\* kept in self._alarm_settings[channel], which the loop writes.
SetSensitivity ==
    /\ At(1, "set_sensitivity", "entry")
    /\ LET channel == Top(1).args.channel IN
       IF ~InChannels(channel)
       THEN /\ Finish(1, HostRaised("set_sensitivity", "InvalidParameterError"))
            /\ UNCHANGED cache
       ELSE IF cache[channel]["alarm_settings"] = <<>>
       THEN /\ Finish(1, HostRaised("set_sensitivity", "NotSupportedError"))
            /\ UNCHANGED cache
       ELSE LET sens == Sensitivities(cache[channel]["alarm_settings"], Top(1).args.a,
                                      Top(1).args.b) IN
             /\ cache' = Put(cache, channel, "alarm_settings", sens)
             /\ AwaitSendSetting(<<SetReq("SetAlarm", channel, sens)>>)
    /\ UNCHANGED <<channels, nvr_num_channels, GetChannelStatus_present, api_version,
                   host_settings, last, sent>>
    /\ DataQuiet

\* The arguments of set_recording and set_push, with what the caller read
\* of the channel before the call: the settings block and the enabled flag.
SwitchArgs(cmd, channel, enable) ==
    [cmd |-> cmd, channel |-> channel, enable |-> enable,
     was |-> IF channel \in Chans THEN cache[channel] ELSE NoCache[0]]
CallSetRecording(channel, enable) ==
    HostStart(HostFrame("set_recording", "entry", SwitchArgs("SetRec", channel, enable)))
CallSetPush(channel, enable) ==
    HostStart(HostFrame("set_push", "entry", SwitchArgs("SetPush", channel, enable)))

\* body[0]["param"]...["enable"] = 1 if enable else 0
EnableField(enable) == IF enable THEN "1" ELSE "0"

\* set_recording(channel, enable) for a channel that is not None:
\* body[0]["param"] is the block kept in self._recording_settings[channel],
\* so the block is written when the body is made.  `await
\* self.send_setting(body)` is in the else branch: with the version 0 the
\* coroutine ends after the body was made.
SetRecording ==
    /\ At(1, "set_recording", "entry")
    /\ LET channel == Top(1).args.channel
           val == EnableField(Top(1).args.enable)
       IN  IF ~InChannels(channel)
           THEN /\ Finish(1, HostRaised("set_recording", "InvalidParameterError"))
                /\ UNCHANGED cache
           ELSE IF cache[channel]["recording_settings"] = Absent
           THEN /\ Finish(1, HostRaised("set_recording", "NotSupportedError"))
                /\ UNCHANGED cache
           ELSE /\ cache' = Put(cache, channel, "recording_settings", val)
                /\ IF api_version["rec"] = 0
                   THEN Finish(1, HostReturned("set_recording"))
                   ELSE AwaitSendSetting(<<SetReq("SetRecV20", channel, val)>>)
    /\ UNCHANGED <<channels, nvr_num_channels, GetChannelStatus_present, api_version,
                   host_settings, last, sent>>
    /\ DataQuiet

\* set_push(channel, enable) for a channel that is not None: the body is
\* made in the same way and sent for both versions.
SetPush ==
    /\ At(1, "set_push", "entry")
    /\ LET channel == Top(1).args.channel
           val == EnableField(Top(1).args.enable)
       IN  IF ~InChannels(channel)
           THEN /\ Finish(1, HostRaised("set_push", "InvalidParameterError"))
                /\ UNCHANGED cache
           ELSE IF cache[channel]["push_settings"] = Absent
           THEN /\ Finish(1, HostRaised("set_push", "NotSupportedError"))
                /\ UNCHANGED cache
           ELSE /\ cache' = Put(cache, channel, "push_settings", val)
                /\ AwaitSendSetting(<<SetReq(IF api_version["push"] = 0 THEN "SetPush"
                                             ELSE "SetPushV20", channel, val)>>)
    /\ UNCHANGED <<channels, nvr_num_channels, GetChannelStatus_present, api_version,
                   host_settings, last, sent>>
    /\ DataQuiet

\* send_setting(body): the body is sent and the first element of the
\* response is examined; after a good one get_state(getcmd) follows.
SendSetting(a) ==
    /\ At(1, "send_setting", "entry")
    /\ sent' = Append(sent, Top(1).args.body)
    /\ IF a.kind # "json"
       THEN /\ Finish(1, HostRaised("send_setting", a.err))
            /\ UNCHANGED last
       ELSE /\ last' = Record("send_setting", a.json_data, 0, <<>>, <<>>)
            /\ IF SettingError(a.json_data) # ""
               THEN Finish(1, HostRaised("send_setting", SettingError(a.json_data)))
               ELSE Await("state", HostFrame("get_state", "entry",
                                             [cmd |-> GetCmd[Top(1).args.cmd]]))
    /\ UNCHANGED <<channels, nvr_num_channels, GetChannelStatus_present, api_version,
                   host_settings, cache>>
    /\ DataQuiet

\* send_setting and the setters after the coroutine they awaited last: its
\* exception is theirs, else they return.
SetterFns ==
    {"set_time", "set_ntp", "set_whiteled", "set_sensitivity", "set_recording", "set_push"}
Resumes(fn, pc) ==
    /\ At(1, fn, pc)
    /\ \/ Propagates(fn)
       \/ /\ ret[1].kind # "raise"
          /\ Finish(1, HostReturned(fn))
    /\ UNCHANGED cacheVars
    /\ DataQuiet
SendSettingEnds == Resumes("send_setting", "state")
SetterEnds == \E fn \in SetterFns : Resumes(fn, "sent")

\* What the device holds is what the Host last read or set, or the values
\* of a new device.
HeldSens(channel) ==
    IF cache[channel]["alarm_settings"] # <<>> THEN cache[channel]["alarm_settings"]
    ELSE DeviceSens
WithSens(json_data) ==
    [i \in 1..Len(json_data) |->
        IF json_data[i].cmd = "GetAlarm"
        THEN [json_data[i] EXCEPT !.sens = HeldSens(json_data[i].channel)]
        ELSE json_data[i]]
\* The answers to get_state(cmd) in the runs of the setters.
SetStateAnswers ==
    IF stack[1] = <<>> \/ Top(1).fn # "get_state" THEN {}
    ELSE IF Top(1).args.cmd = "GetTime"
    THEN {Json(<<[HostElem("GetTime", 0, "ok") EXCEPT !.val = host_settings.time]>>)}
         \cup SendFailures
    ELSE IF Top(1).args.cmd = "GetNtp"
    THEN {Json(<<[HostElem("GetNtp", 0, "ok") EXCEPT !.val = host_settings.ntp]>>)}
         \cup SendFailures
    ELSE {Json(WithSens(ChannelAnswer(NextBody, Families, "omit")))} \cup SendFailures
\* The answers to get_host_data() in the runs of the setters: both channels
\* online, the time and NTP settings or an error for them.
SetHostAnswers ==
    {a \in HostAnswers :
        a.kind = "json" =>
            /\ a.json_data[1].status = AllOnline
            /\ a.json_data[5].shape = "ok" /\ a.json_data[5].ver = 1}

\* The device reports the enable field e for the recording and push
\* commands of a response.
WithEnable(json_data, e) ==
    [i \in 1..Len(json_data) |->
        IF json_data[i].cmd \in DOMAIN SettingsOf /\ json_data[i].shape = "ok"
        THEN [json_data[i] EXCEPT !.val = e]
        ELSE json_data[i]]
\* The answers to the channel commands in the runs of set_recording and
\* set_push: a device with all families in V20 or with none, recording and
\* push notifications on or off.
SwitchAnswers ==
    {Json(WithEnable(ChannelAnswer(NextBody, sup, "omit"), e)) :
        sup \in {Families, {}}, e \in {"0", "1"}}
    \cup SendFailures

\* ------------------------------------------------------------------- utils
\* A dictionary of the device: {"year", "mon", "day", "hour", "min", "sec"}.
ReolinkTime(year, mon, day, hour, min, sec) ==
    [year |-> year, mon |-> mon, day |-> day, hour |-> hour, min |-> min, sec |-> sec]

\* datetime: the days of a month, and the fields its constructor takes,
\* else ValueError.
IsLeap(year) == year % 4 = 0 /\ (year % 100 # 0 \/ year % 400 = 0)
DaysInMonth(year, month) ==
    IF month = 2 THEN (IF IsLeap(year) THEN 29 ELSE 28)
    ELSE IF month \in {4, 6, 9, 11} THEN 30
    ELSE 31
ValidDateTime(year, month, day, hour, minute, second) ==
    /\ year \in 1..9999
    /\ month \in 1..12
    /\ day >= 1 /\ day <= DaysInMonth(year, month)
    /\ hour \in 0..23
    /\ minute \in 0..59
    /\ second \in 0..59
\* A datetime object, or the ValueError of its constructor (error TRUE).
DateTime(year, month, day, hour, minute, second) ==
    [error |-> FALSE, year |-> year, month |-> month, day |-> day, hour |-> hour,
     minute |-> minute, second |-> second, microsecond |-> 0]
ValueError == [DateTime(0, 0, 0, 0, 0, 0) EXCEPT !.error = TRUE]

\* reolink_time_to_datetime(time)
reolink_time_to_datetime(time) ==
    IF ValidDateTime(time.year, time.mon, time.day, time.hour, time.min, time.sec)
    THEN DateTime(time.year, time.mon, time.day, time.hour, time.min, time.sec)
    ELSE ValueError

\* Faulty variant: the month and the minute change places.
datetime_to_reolink_time_swapped(time) ==
    ReolinkTime(time.year, time.minute, time.day, time.hour, time.month, time.second)

\* datetime_to_reolink_time(time) for a datetime
datetime_to_reolink_time(time) ==
    ReolinkTime(time.year, time.month, time.day, time.hour, time.minute, time.second)

\* Nothing was converted.
NoConv == [done |-> FALSE, time |-> ReolinkTime(0, 0, 0, 0, 0, 0), datetime |-> ValueError,
           back |-> ReolinkTime(0, 0, 0, 0, 0, 0)]

\* The dictionaries that are converted: dates at the ends of the months of a
\* leap year and of another year, and fields just out of range.
Years == {2023, 2024}
Months == {0, 1, 2, 4, 12, 13}
Days == {0, 1, 28, 29, 30, 31, 32}
Hours == {0, 23, 24}
Minutes == {0, 59, 60}
Seconds == {0, 59, 60}

\* datetime_to_reolink_time(reolink_time_to_datetime(time)), once; the
\* second call is not made when the first raised.
RoundTrip(time) ==
    /\ ~conv.done
    /\ LET d == reolink_time_to_datetime(time) IN
       conv' = [done |-> TRUE, time |-> time, datetime |-> d,
                back |-> IF d.error THEN NoConv.back ELSE datetime_to_reolink_time(d)]
    /\ UNCHANGED <<progVars, envVars, obsVars, bc_mutex, logged_in, keyVars, connVars, wire,
                   dec, cacheVars>>

\* ------------------------------------------------------------ specification
\* Baichuan(host, username, password): no connection, no keys.
InitBaichuan ==
    /\ bc_mutex = FreeMutex
    /\ transport = Null
    /\ protocol = Null
    /\ logged_in = FALSE
    /\ nonce = Null
    /\ aes_key = Null
    /\ user_hash = Null
    /\ password_hash = Null
    /\ protocols = <<>>
    /\ wire = <<>>
    /\ dec = NoDec
    /\ conv = NoConv

\* Host(host, username, password, port, use_https): the port and the scheme
\* are given, or both left unknown.
Init ==
    /\ token = Null
    /\ lease = NoLease
    /\ \E p \in {<<Null, "none">>, <<HttpPort, "no">>} :
          port = p[1] /\ use_https = p[2]
    /\ closed = FALSE
    /\ login_mutex = FreeMutex
    /\ send_mutex = FreeMutex
    /\ running = 0
    /\ stack = [t \in Tasks |-> <<>>]
    /\ ret = [t \in Tasks |-> NoRet]
    /\ issued = 0
    /\ faults = 0
    /\ ncalls = 0
    /\ call = NoCall
    /\ marks = NoMarks
    /\ chain = <<>>
    /\ retired = {}
    /\ InitBaichuan
    /\ InitCache

\* Two tasks call the Host concurrently: send, login, logout and
\* subscription_send, with the waits for a mutex another task holds.  Nothing
\* is recorded.
Next ==
    \/ \E t \in Tasks : CallSend(t, PostCommand) /\ Quiet
    \/ \E t \in Tasks : CallLogin(t) /\ Quiet
    \/ \E t \in Tasks : CallLogout(t) /\ Quiet
    \/ \E t \in Tasks : Return(t) /\ Quiet
    \/ \E t \in Tasks : SendEntry(t) /\ Quiet
    \/ \E t \in Tasks : SendAfterLogin(t) /\ Quiet
    \/ \E t \in Tasks : SendParam(t) /\ Quiet
    \/ \E t \in Tasks : SendReadBody(t) /\ Quiet
    \/ \E t \in Tasks : SendClassify(t) /\ Quiet
    \/ \E t \in Tasks : SendAfterRetry(t) /\ Quiet
    \/ \E t \in Tasks : LoginEntry(t) /\ Quiet
    \/ \E t \in Tasks : LoginAfterTryPorts(t) /\ Quiet
    \/ \E t \in Tasks : LoginCheck(t) /\ Quiet
    \/ \E t \in Tasks : LoginAfterLogout(t) /\ Quiet
    \/ \E t \in Tasks : LoginAfterSend(t) /\ Quiet
    \/ \E t \in Tasks : TryPortsFirst(t) /\ Quiet
    \/ \E t \in Tasks : TryPortsAfterFirst(t) /\ Quiet
    \/ \E t \in Tasks : TryPortsAfterSecond(t) /\ Quiet
    \/ \E t \in Tasks : LogoutEntry(t) /\ Quiet
    \/ \E t \in Tasks : LogoutBody(t) /\ Quiet
    \/ \E t \in Tasks : LogoutAfterSend(t) /\ Quiet
    \/ \E t \in Tasks : LogoutClosed(t) /\ Quiet
    \/ \E t \in Tasks : CallSubscriptionSend(t) /\ Quiet
    \/ \E t \in Tasks : SubEntry(t) /\ Quiet
    \/ \E t \in Tasks : SubMutexGranted(t) /\ Quiet
    \/ \E t \in Tasks : SendMutexGranted(t) /\ Quiet
    \/ \E t \in Tasks : LoginMutexGranted(t) /\ Quiet
    \/ \E t \in Tasks : LogoutMutexGranted(t) /\ Quiet
    \/ \E t \in Tasks, v \in {"text", "None"} : SubRespond(t, v) /\ Quiet
    \/ \E t \in Tasks : SendRequest(t) /\ Quiet
    \/ \E t \in Tasks, r \in BasicResponses : DeviceRespond(t, r, MaxFaultsConc) /\ Quiet
    \/ \E t \in Tasks : DeviceError(t, "TimeoutError", MaxFaultsConc) /\ Quiet
    \/ CallExpireSession /\ Quiet
    \/ CallClearToken /\ Quiet

Spec == Init /\ [][Next]_vars

\* Between two calls: no call is in progress and one more is to come.
Between == Idle /\ ncalls < MaxCalls

\* One task calls the Host, one call after the other; the device gives every
\* answer of Responses, the user expires or clears
\* the session and time passes between the calls, and the transmissions
\* of each call are recorded.
NextSeq ==
    \/ \E c \in {PostCommand, SnapCommand} : CallSend(1, c) /\ ObsStart("send")
    \/ CallLogin(1) /\ ObsStart("login")
    \/ CallLogout(1) /\ ObsStart("logout")
    \/ Return(1) /\ ObsReturn(1)
    \/ SendEntry(1) /\ Quiet
    \/ SendAfterLogin(1) /\ Quiet
    \/ SendParam(1) /\ Quiet
    \/ SendReadBody(1) /\ Quiet
    \/ SendClassify(1) /\ Quiet
    \/ SendAfterRetry(1) /\ Quiet
    \/ LoginEntry(1) /\ Quiet
    \/ LoginAfterTryPorts(1) /\ Quiet
    \/ LoginCheck(1) /\ Quiet
    \/ LoginAfterLogout(1) /\ Quiet
    \/ LoginAfterSend(1) /\ Quiet
    \/ TryPortsFirst(1) /\ Quiet
    \/ TryPortsAfterFirst(1) /\ Quiet
    \/ TryPortsAfterSecond(1) /\ Quiet
    \/ LogoutEntry(1) /\ Quiet
    \/ LogoutBody(1) /\ Quiet
    \/ LogoutAfterSend(1) /\ Quiet
    \/ LogoutClosed(1) /\ Quiet
    \/ SendRequest(1) /\ ObsRequest(1)
    \/ \E r \in Responses : DeviceRespond(1, r, MaxFaults) /\ ObsRespond(1, r)
    \/ \E e \in NetErrors : DeviceError(1, e, MaxFaults) /\ ObsError(e)
    \/ Between /\ CallExpireSession /\ ObsExpire
    \/ Between /\ CallClearToken /\ ObsClear
    \/ \E d \in TickSteps : Between /\ Tick(d) /\ Quiet

SpecSeq == Init /\ [][NextSeq]_vars

\* The Baichuan client alone: two tasks call set_port_enabled, get_ports,
\* login and logout; the device answers, answers wrongly or not at all, and
\* connections are lost.  The Host is not used.
HostQuiet ==
    UNCHANGED <<token, lease, port, use_https, closed, login_mutex, send_mutex, issued,
                obsVars, dec, conv, cacheVars>>

InitBc == Init /\ port = Null

NextBc ==
    \/ \E t \in Tasks : CallSetPort(t) /\ HostQuiet
    \/ \E t \in Tasks : CallBcLogout(t) /\ HostQuiet
    \/ \E t \in Tasks : Return(t) /\ Quiet
    \/ \E t \in Tasks : BcSendEntry(t) /\ HostQuiet
    \/ \E t \in Tasks : BcSendAfterLogin(t) /\ HostQuiet
    \/ \E t \in Tasks : BcSendEncrypt(t) /\ HostQuiet
    \/ \E t \in Tasks : BcMutexGranted(t) /\ HostQuiet
    \/ \E t \in Tasks : BcSendConnect(t) /\ HostQuiet
    \/ \E t \in Tasks : BcConnected(t) /\ HostQuiet
    \/ \E t \in Tasks : BcConnectFailed(t, MaxBcFaultsConc) /\ HostQuiet
    \/ \E t \in Tasks : BcSendWrite(t) /\ HostQuiet
    \/ \E t \in Tasks : BcReply(t, MaxBcFaultsConc) /\ HostQuiet
    \/ \E t \in Tasks : BcTimeout(t, MaxBcFaultsConc) /\ HostQuiet
    \/ \E c \in 1..Len(protocols) : ConnectionLost(c, MaxBcFaultsConc) /\ HostQuiet
    \/ \E t \in Tasks : BcConnectionError(t) /\ HostQuiet
    \/ \E t \in Tasks : BcSendRetry(t) /\ HostQuiet
    \/ \E t \in Tasks : BcSendFinally(t) /\ HostQuiet
    \/ \E t \in Tasks : BcLoginEntry(t) /\ HostQuiet
    \/ \E t \in Tasks : GetNonceEntry(t) /\ HostQuiet
    \/ \E t \in Tasks : GetNonceAfterSend(t) /\ HostQuiet
    \/ \E t \in Tasks : BcLoginAfterNonce(t) /\ HostQuiet
    \/ \E t \in Tasks : BcLoginAfterSend(t) /\ HostQuiet
    \/ \E t \in Tasks : BcLogoutEntry(t) /\ HostQuiet
    \/ \E t \in Tasks : BcLogoutAfterSend(t) /\ HostQuiet
    \/ \E t \in Tasks : BcLogoutClosed(t) /\ HostQuiet

SpecBc == InitBc /\ [][NextBc]_vars

\* One task calls the Baichuan client, one call after the other, with more
\* faults of the device and the network.
NextBcSeq ==
    \/ CallSetPort(1) /\ HostQuiet
    \/ CallGetPorts(1) /\ HostQuiet
    \/ CallBcLogin(1) /\ HostQuiet
    \/ CallBcLogout(1) /\ HostQuiet
    \/ Return(1) /\ Quiet
    \/ BcSendEntry(1) /\ HostQuiet
    \/ BcSendAfterLogin(1) /\ HostQuiet
    \/ BcSendEncrypt(1) /\ HostQuiet
    \/ BcSendConnect(1) /\ HostQuiet
    \/ BcConnected(1) /\ HostQuiet
    \/ BcConnectFailed(1, MaxBcFaults) /\ HostQuiet
    \/ BcSendWrite(1) /\ HostQuiet
    \/ BcReply(1, MaxBcFaults) /\ HostQuiet
    \/ BcTimeout(1, MaxBcFaults) /\ HostQuiet
    \/ \E c \in 1..Len(protocols) : ConnectionLost(c, MaxBcFaults) /\ HostQuiet
    \/ BcConnectionError(1) /\ HostQuiet
    \/ BcSendRetry(1) /\ HostQuiet
    \/ BcSendFinally(1) /\ HostQuiet
    \/ BcLoginEntry(1) /\ HostQuiet
    \/ GetNonceEntry(1) /\ HostQuiet
    \/ GetNonceAfterSend(1) /\ HostQuiet
    \/ BcLoginAfterNonce(1) /\ HostQuiet
    \/ BcLoginAfterSend(1) /\ HostQuiet
    \/ BcLogoutEntry(1) /\ HostQuiet
    \/ BcLogoutAfterSend(1) /\ HostQuiet
    \/ BcLogoutClosed(1) /\ HostQuiet

SpecBcSeq == InitBc /\ [][NextBcSeq]_vars

\* The same with the event loop running what can run: a step that stays
\* possible is taken.
SpecBcSeqFair == SpecBcSeq /\ WF_vars(NextBcSeq)

\* _decrypt alone, called for the replies that can come.
NextDecrypt ==
    \/ CallDecrypt
    \/ push_callback

SpecDecrypt == InitBc /\ [][NextDecrypt]_vars

\* The response mapper alone: its three methods are called with the
\* responses a device can give, one call after the other.
NextMap ==
    \/ \E json_data \in HostBatches : MapHost(json_data)
    \/ \E json_data \in ChannelBatches, channel \in Chans : MapChannel(json_data, channel)
    \/ \E json_data \in ChannelBatches, chs \in ChanLists : MapChannels(json_data, chs)

InitMap == Init /\ port = Null

SpecMap == InitMap /\ [][NextMap]_vars

\* The commands get_state is called with before set_recording and set_push.
SwitchStateCmds == {"GetRec", "GetPush"}

\* Recording and push notifications: one task calls get_host_data,
\* get_state, set_recording and set_push, one call after the other.
NextRec ==
    \/ CallGetHostData
    \/ \E cmd \in SwitchStateCmds : CallGetState(cmd)
    \/ \E channel \in Chans, enable \in BOOLEAN : CallSetRecording(channel, enable)
    \/ \E channel \in Chans, enable \in BOOLEAN : CallSetPush(channel, enable)
    \/ \E a \in SetHostAnswers : GetHostDataHost(a)
    \/ \E a \in SwitchAnswers : GetHostDataChannels(a)
    \/ \E a \in SwitchAnswers : GetState(a)
    \/ SetRecording
    \/ SetPush
    \/ \E a \in SettingAnswers : SendSetting(a)
    \/ SendSettingEnds
    \/ SetterEnds
    \/ Return(1) /\ Quiet

SpecRec == InitMap /\ [][NextRec]_vars

\* The arguments of the setters: good ones and ones out of range.
DateFmts == {"None", "MM/DD/YYYY", "DD-MM-YYYY"}
TzOffsets == {NoInt, 3600, 50401}
NtpPorts == {NoInt, 123, 0}
Intervals == {NoInt, 5, 1440}
Brightnesses == {50, 101}
SensValues == {1, 50}
PresetIds == {NoInt, 1}
\* The commands get_state is called with before a setter.
SetStateCmds == {"GetAlarm", "GetWhiteLed"}

\* Settings: one task calls get_host_data, get_state and the setters, one
\* call after the other.
NextSet ==
    \/ CallGetHostData
    \/ \E cmd \in SetStateCmds : CallGetState(cmd)
    \/ \E dateFmt \in DateFmts, tzOffset \in TzOffsets : CallSetTime(dateFmt, tzOffset)
    \/ \E ntpPort \in NtpPorts, interval \in Intervals : CallSetNtp(ntpPort, interval)
    \/ \E channel \in Chans, brightness \in Brightnesses :
           CallSetWhiteLed(channel, brightness, NoInt)
    \/ \E channel \in Chans, value \in SensValues, preset \in PresetIds :
           CallSetSensitivity(channel, value, preset)
    \/ \E a \in SetHostAnswers : GetHostDataHost(a)
    \/ \E a \in {Json(ChannelAnswer(NextBody, Families, "omit"))} \cup SendFailures :
           GetHostDataChannels(a)
    \/ \E a \in SetStateAnswers : GetState(a)
    \/ SetTimeEntry
    \/ SetTimeChecks
    \/ SetNtpEntry
    \/ SetNtpChecks
    \/ SetWhiteLed
    \/ SetSensitivity
    \/ \E a \in SettingAnswers : SendSetting(a)
    \/ SendSettingEnds
    \/ SetterEnds
    \/ Return(1) /\ Quiet

SpecSet == InitMap /\ [][NextSet]_vars

\* The conversions of utils alone, on one dictionary after the other.
NextTime ==
    \E year \in Years, mon \in Months, day \in Days, hour \in Hours, min \in Minutes,
       sec \in Seconds :
        RoundTrip(ReolinkTime(year, mon, day, hour, min, sec))

SpecTime == InitMap /\ [][NextTime]_vars

\* The tokens a step retires: the one of a Logout that is transmitted, and
\* the one the Host held when the step cleared or replaced it.
Retired ==
    {stack'[t][Len(stack'[t])].ptok : t \in
        {u \in Tasks : /\ At(u, "send", "request")
                       /\ Top(u).cmd = "Logout"
                       /\ stack'[u] # <<>>
                       /\ stack'[u][Len(stack'[u])].pc = "await_response"}}
    \cup (IF token # Null /\ token' # token THEN {token} ELSE {})

\* The step is recorded in retired only.
Retires ==
    /\ retired' = retired \cup Retired
    /\ UNCHANGED <<call, marks, chain, bcVars, cacheVars>>

\* Two tasks call send(), login() and logout() of the Host concurrently,
\* and the tokens that are logged out or cleared are recorded.
NextTok ==
    \/ \E t \in Tasks : CallSend(t, PostCommand) /\ Retires
    \/ \E t \in Tasks : CallLogin(t) /\ Retires
    \/ \E t \in Tasks : CallLogout(t) /\ Retires
    \/ \E t \in Tasks : Return(t) /\ Retires
    \/ \E t \in Tasks : SendEntry(t) /\ Retires
    \/ \E t \in Tasks : SendAfterLogin(t) /\ Retires
    \/ \E t \in Tasks : SendParam(t) /\ Retires
    \/ \E t \in Tasks : SendReadBody(t) /\ Retires
    \/ \E t \in Tasks : SendClassify(t) /\ Retires
    \/ \E t \in Tasks : SendAfterRetry(t) /\ Retires
    \/ \E t \in Tasks : LoginEntry(t) /\ Retires
    \/ \E t \in Tasks : LoginAfterTryPorts(t) /\ Retires
    \/ \E t \in Tasks : LoginCheck(t) /\ Retires
    \/ \E t \in Tasks : LoginAfterLogout(t) /\ Retires
    \/ \E t \in Tasks : LoginAfterSend(t) /\ Retires
    \/ \E t \in Tasks : TryPortsFirst(t) /\ Retires
    \/ \E t \in Tasks : TryPortsAfterFirst(t) /\ Retires
    \/ \E t \in Tasks : TryPortsAfterSecond(t) /\ Retires
    \/ \E t \in Tasks : LogoutEntry(t) /\ Retires
    \/ \E t \in Tasks : LogoutBody(t) /\ Retires
    \/ \E t \in Tasks : LogoutAfterSend(t) /\ Retires
    \/ \E t \in Tasks : LogoutClosed(t) /\ Retires
    \/ \E t \in Tasks : SendMutexGranted(t) /\ Retires
    \/ \E t \in Tasks : LoginMutexGranted(t) /\ Retires
    \/ \E t \in Tasks : LogoutMutexGranted(t) /\ Retires
    \/ \E t \in Tasks : SendRequest(t) /\ Retires
    \/ \E t \in Tasks, r \in BasicResponses : DeviceRespond(t, r, MaxFaultsConc) /\ Retires
    \/ \E t \in Tasks : DeviceError(t, "TimeoutError", MaxFaultsConc) /\ Retires

SpecTok == Init /\ [][NextTok]_vars

\* The commands get_state is called with.
StateCmds == {"GetAbility", "GetEmail", "GetEmailV20", "GetFtp", "GetAlarm"}

\* Discovery and state: one task calls get_host_data, get_state and
\* get_states, one call after the other, and the device answers with what
\* it has.
NextVer ==
    \/ CallGetHostData
    \/ \E cmd \in StateCmds : CallGetState(cmd)
    \/ CallGetStates
    \/ \E a \in HostAnswers : GetHostDataHost(a)
    \/ \E a \in ChannelAnswers(NextBody) : GetHostDataChannels(a)
    \/ \E a \in StateAnswers : GetState(a)
    \/ \E a \in ChannelAnswers(NextBody) : GetStates(a)
    \/ Return(1) /\ Quiet

SpecVer == InitMap /\ [][NextVer]_vars

\* ------------------------------------------------------------- properties
\* How the properties read the record of a call.
Indices(kind) == {i \in 1..Len(chain) : chain[i].kind = kind}
Count(kind) == Cardinality(Indices(kind))
Largest(S) == CHOOSE x \in S : \A y \in S : y <= x
Smallest(S) == CHOOSE x \in S : \A y \in S : x <= y
Kinds == [i \in 1..Len(chain) |-> chain[i].kind]

\* The outermost call has ended and its caller is about to get the result.
CallDone(op) == running = 1 /\ stack[1] = <<>> /\ call.op = op /\ ret[1].kind # "none"

\* The Logins before transmission i that the device answered with a token.
LoginBefore(i) ==
    {j \in Indices("Login") : j < i /\ chain[j].resp.status = 200 /\ chain[j].resp.body = "ok"}
LoginAfter(i) ==
    {j \in Indices("Login") : j > i /\ chain[j].resp.status = 200 /\ chain[j].resp.body = "ok"}

\* Every transmission of the command comes after a Login that was answered
\* with a token, and carries the token of the latest one.
CommandOnNewSession ==
    \A i \in Indices("cmd") :
        /\ LoginBefore(i) # {}
        /\ chain[i].tok = chain[Largest(LoginBefore(i))].resp.name
        /\ chain[i].tok > call.issuedAt

\* The device answered every request of the call as a working device does.
AllGood == \A i \in 1..Len(chain) : GoodAnswer(chain[i], chain[i].resp)

\* C1, as stated: after expire_session() on a Host that is logged in, the
\* next send() of a command other than Login/Logout transmits exactly one
\* Login, before the command, and then the command with the new token.
\* Read for the calls that return the answer to the command.
C1_Stated ==
    (CallDone("send") /\ call.expired /\ ret[1].val \in {"json", "data"}) =>
        /\ Count("Login") = 1
        /\ Count("cmd") >= 1
        /\ CommandOnNewSession

\* C1, amended: after expire_session() on a Host that is logged in, the next
\* send() transmits its command only after a Login that was answered with a
\* new token, each transmission of the command carries the token of the
\* latest Login, and when the device answers every request well the call
\* transmits one Logout, one Login and the command, in this order.
C1_Relogin ==
    (call.op = "send" /\ call.expired) =>
        /\ CommandOnNewSession
        /\ (CallDone("send") /\ AllGood) =>
              /\ Kinds = <<"Logout", "Login", "cmd">>
              /\ ret[1].kind = "return" /\ ret[1].val \in {"json", "data"}

\* C1: the call after expire_session() has sent Logout, Login and the command.
C1_Witness ==
    /\ CallDone("send") /\ call.expired
    /\ Kinds = <<"Logout", "Login", "cmd">>
    /\ chain[3].tok = chain[2].resp.name
    /\ ret[1].val = "json"

\* C2, as stated: a send() that starts with a token and more than 300 s of
\* lease transmits no Login and no Logout and carries the token it found, and
\* login() then returns True without any request.  Read for the calls that
\* return the answer to the command.
C2_Stated ==
    /\ (CallDone("send") /\ call.fresh /\ ret[1].val \in {"json", "data"}) =>
          /\ Count("Login") = 0 /\ Count("Logout") = 0
          /\ \A i \in Indices("cmd") : chain[i].tok = call.entryTok
    /\ (call.op = "login" /\ call.fresh) =>
          /\ chain = <<>>
          /\ CallDone("login") => ret[1].kind = "return" /\ ret[1].val = "True"

\* The answer makes send() try again: status 502, a body that is no JSON
\* where JSON is expected, or a short login-error page.
AsksRetry(e) ==
    \/ e.resp.status = BadGateway
    \/ (~e.get) /\ e.resp.status # 0 /\ ~Decodable(e.resp)
    \/ e.resp.len < 500 /\ e.resp.ctype = "text/html" /\ HasLoginDetail(e.resp)

\* C2, amended: a send() that starts with a token and more than 300 s of
\* lease transmits the command first, with the token it found; a Logout and
\* a Login follow only when the answer to the command makes send() try again.
\* login() returns True without any request whenever the token is set and
\* more than 300 s of lease remain.
C2_Reuse ==
    /\ (call.op = "send" /\ call.fresh /\ chain # <<>>) =>
          /\ chain[1].kind = "cmd"
          /\ chain[1].tok = call.entryTok
          /\ Len(chain) >= 2 => AsksRetry(chain[1])
    /\ (call.op = "login" /\ call.fresh) =>
          /\ chain = <<>>
          /\ CallDone("login") => ret[1].kind = "return" /\ ret[1].val = "True"

\* C2: a send() on a fresh session ended after one transmission.
C2_Witness ==
    /\ CallDone("send") /\ call.fresh
    /\ Len(chain) = 1 /\ chain[1].tok = call.entryTok
    /\ ret[1].val = "json"

\* C3: session_active is true exactly when the token is set and the lease
\* ends more than 5 s from now; it is false when the token or the lease is
\* null.
C3_SessionActive ==
    /\ session_active <=> (token # Null /\ lease # NoLease /\ lease - 5 > 0)
    /\ (token = Null \/ lease = NoLease) => ~session_active

\* C3: a token whose lease ends in exactly 5 s.
C3_Witness == token # Null /\ lease = 5 /\ ~session_active

\* C4: the token and the lease are both null or both set in every state
\* another task can see, also after a login() that returned False or raised.
C4_TokenLeasePair == (token = Null) <=> (lease = NoLease)

\* C4: login() returned False on a Login answer that has a lease time but no
\* token name.
C4_Witness ==
    /\ CallDone("login") /\ ret[1].val = "False"
    /\ chain # <<>> /\ chain[Len(chain)].resp.body = "noName"
    /\ token = Null /\ lease = NoLease

\* Task t is inside login() or logout() between the acquire and the release
\* of the login mutex, where the Logout and Login requests are made.
InLoginSequence(t) ==
    \E i \in 1..Depth(t) :
        \/ stack[t][i].fn = "login" /\ stack[t][i].pc \in {"check", "after_logout", "after_send"}
        \/ stack[t][i].fn = "logout" /\ stack[t][i].pc \in {"body", "after_send", "closing"}

\* Task t has a send() of Login or Logout in progress.
SendsLoginLogout(t) ==
    \E i \in 1..Depth(t) : stack[t][i].fn = "send" /\ IsLoginLogout(stack[t][i])

\* C5: at most one task is inside a login/logout sequence, and a Login or a
\* Logout is only sent from inside one: the Logout/Login requests of two
\* tasks never interleave.
C5_OneLoginSequence ==
    /\ Cardinality({t \in Tasks : InLoginSequence(t)}) <= 1
    /\ \A t \in Tasks : SendsLoginLogout(t) => InLoginSequence(t)

\* C5: one task waits for its Login answer while the other waits to log in.
C5_Witness ==
    \E t, u \in Tasks :
        /\ Depth(t) > 0 /\ Top(t).fn = "send" /\ Top(t).cmd = "Login"
        /\ Top(t).pc = "await_response"
        /\ Depth(u) > 0 /\ Top(u).pc = "wait_login_mutex"

\* The GET/POST of task t, or the post of its subscription_send, is awaited.
InFlight(t) == Depth(t) > 0 /\ Top(t).pc = "await_response"

\* C6: at most one HTTP request of the Host is in flight.
C6_OneRequestInFlight == Cardinality({t \in Tasks : InFlight(t)}) <= 1

\* C6: a subscription_send waits for the mutex while a send() has its
\* request in flight.
C6_Witness ==
    \E t, u \in Tasks :
        /\ InFlight(t) /\ Top(t).fn = "send"
        /\ Depth(u) > 0 /\ Top(u).fn = "sub_send" /\ Top(u).pc = "wait_send_mutex"

\* The answer is a short login-error page.
AuthShaped(e) ==
    e.resp.len < 500 /\ e.resp.ctype = "text/html" /\ HasLoginDetail(e.resp)

\* The answer has status 502, or a body that is no JSON where JSON is
\* expected.
BadGatewayAnswer(e) == e.resp.status = 502
UndecodableAnswer(e) == (~e.get) /\ e.kind # "Logout" /\ e.resp.status # 0 /\ ~Decodable(e.resp)

\* The same, where the tests that send() makes first do not decide: the
\* login-error page, the content type of a request that expects no JSON, and
\* for the body a status of 400 or more.
RetriedFor502(e) ==
    /\ BadGatewayAnswer(e)
    /\ ~(AuthShaped(e) /\ e.kind # "Logout")
    /\ ~(e.get /\ e.resp.ctype # "image/jpeg")
RetriedForBody(e) ==
    /\ UndecodableAnswer(e)
    /\ e.resp.status < 400
    /\ ~AuthShaped(e)

FirstCmd == Smallest(Indices("cmd"))
LastCmd == Largest(Indices("cmd"))

\* The typed error of send() for a failure of the retransmission.
TypedError(e) == IF BadGatewayAnswer(e) THEN "ApiError" ELSE "InvalidContentTypeError"

\* A send() called with retry = True starts on an expired session.
RetryStartsExpired ==
    \A i \in 1..Depth(1) :
        (stack[1][i].fn = "send" /\ stack[1][i].retry /\ stack[1][i].pc = "entry")
            => ~session_active

\* C7, as stated: a first answer with status 502, or with a body that is no
\* JSON where JSON is expected, makes send() transmit the command exactly
\* once more; when the second answer fails the same way send() raises
\* ApiError or InvalidContentTypeError; there is no third transmission.
C7_Stated ==
    CallDone("send") =>
        /\ Count("cmd") <= 2
        /\ (Count("cmd") >= 1
              /\ (BadGatewayAnswer(chain[FirstCmd]) \/ UndecodableAnswer(chain[FirstCmd]))) =>
              /\ Count("cmd") = 2
              /\ (BadGatewayAnswer(chain[LastCmd]) \/ UndecodableAnswer(chain[LastCmd])) =>
                    ret[1].kind = "raise" /\ ret[1].val = TypedError(chain[LastCmd])

\* C7, amended: a first answer with status 502, or with a status below 400
\* and a body that is no JSON where JSON is expected, makes send() expire the
\* session and try once more, unless the answer is a login-error page or has
\* the wrong content type for a request that expects no JSON; the retry logs
\* out and in and transmits the command once more exactly when that login
\* succeeds.  A second answer that fails the same way makes send() raise
\* ApiError (status) or InvalidContentTypeError (body).  The command is never
\* transmitted a third time.
C7_RetryOnce ==
    /\ Count("cmd") <= 2
    /\ RetryStartsExpired
    /\ (CallDone("send") /\ Count("cmd") >= 1
          /\ (RetriedFor502(chain[FirstCmd]) \/ RetriedForBody(chain[FirstCmd]))) =>
          /\ Len(chain) > FirstCmd /\ chain[FirstCmd + 1].kind = "Logout"
          /\ Count("cmd") = 2 <=> LoginAfter(FirstCmd) # {}
    /\ (CallDone("send") /\ Count("cmd") = 2
          /\ (RetriedFor502(chain[LastCmd]) \/ RetriedForBody(chain[LastCmd]))) =>
          ret[1].kind = "raise" /\ ret[1].val = TypedError(chain[LastCmd])

\* C7: the command was answered 502 twice and send() raised ApiError.
C7_Witness ==
    /\ CallDone("send") /\ Count("cmd") = 2
    /\ RetriedFor502(chain[FirstCmd]) /\ RetriedFor502(chain[LastCmd])
    /\ ret[1].kind = "raise" /\ ret[1].val = "ApiError"

\* The last Login that send() was called for (retry = False), at the moment
\* login() gets the result of that send().
LoginFirst == Largest({i \in Indices("Login") : ~chain[i].retry})
LoginSendDone == At(1, "login", "after_send") /\ ret[1].kind # "none"

SendEnded(cmd) == running = 1 /\ ret[1].kind # "none" /\ ret[1].fn = "send" /\ ret[1].cmd = cmd

\* Transmission i + 1 is the retransmission of transmission i by the same
\* send() (for Login and Logout, which send() does not log in for).
Resent(i) == i < Len(chain) /\ chain[i + 1].kind = chain[i].kind /\ chain[i + 1].retry

\* C10: a short text/html answer with a login-error detail is an
\* authentication failure.  For Login, send() raises CredentialsInvalidError
\* without sending again.  For any other command except Logout, send()
\* expires the session and tries once more (it logs out and in, and
\* transmits the command again when that login succeeds), and raises
\* CredentialsInvalidError when the second answer is such a page too.  For
\* Logout, such an answer never counts as an authentication failure.
C10_AuthFailure ==
    /\ \A i \in Indices("Login") : AuthShaped(chain[i]) => ~Resent(i)
    /\ (SendEnded("Login") /\ AuthShaped(chain[Len(chain)])) =>
          ret[1].kind = "raise" /\ ret[1].val = "CredentialsInvalidError"
    /\ RetryStartsExpired
    /\ (CallDone("send") /\ Count("cmd") >= 1 /\ AuthShaped(chain[FirstCmd])) =>
          /\ Len(chain) > FirstCmd /\ chain[FirstCmd + 1].kind = "Logout"
          /\ Count("cmd") = 2 <=> LoginAfter(FirstCmd) # {}
          /\ (Count("cmd") = 2 /\ AuthShaped(chain[LastCmd])) =>
                ret[1].kind = "raise" /\ ret[1].val = "CredentialsInvalidError"
    /\ SendEnded("Logout") => ret[1].val # "CredentialsInvalidError"
    /\ \A i \in Indices("Logout") :
          (AuthShaped(chain[i]) /\ chain[i].resp.status = 200) => ~Resent(i)

\* C10: the command was answered with a login-error page twice and send()
\* raised CredentialsInvalidError.
C10_Witness ==
    /\ CallDone("send") /\ Count("cmd") = 2
    /\ AuthShaped(chain[FirstCmd]) /\ AuthShaped(chain[LastCmd])
    /\ ret[1].kind = "raise" /\ ret[1].val = "CredentialsInvalidError"

\* The answer to transmission e has another content type than the request
\* expects.
TypeDiffers(e) == e.resp.status # 0 /\ e.ect # "none" /\ e.resp.ctype # e.ect

\* C11, as stated: whenever the content type of the answer differs from the
\* expected content type, "json" included, send() raises
\* InvalidContentTypeError.
C11_Stated ==
    (CallDone("send") /\ Len(chain) > 0 /\ chain[Len(chain)].kind = "cmd"
        /\ TypeDiffers(chain[Len(chain)])) =>
       ret[1].kind = "raise" /\ ret[1].val = "InvalidContentTypeError"

\* C11: for an expected content type other than None and "json", an answer
\* of another content type that is no short login-error page ends send():
\* nothing is transmitted after it and send() raises
\* InvalidContentTypeError, whatever the status and the body are.  Where
\* "json" is expected the content type of the answer is not looked at: a
\* text/html answer with status 200 and a JSON body is parsed and returned.
C11_ContentType ==
    /\ \A i \in Indices("cmd") :
          (TypeDiffers(chain[i]) /\ chain[i].ect # "json" /\ ~AuthShaped(chain[i])) =>
             /\ i = Len(chain)
             /\ CallDone("send") =>
                   ret[1].kind = "raise" /\ ret[1].val = "InvalidContentTypeError"
    /\ (CallDone("send") /\ Len(chain) > 0 /\ chain[Len(chain)].kind = "cmd"
           /\ chain[Len(chain)].ect = "json" /\ chain[Len(chain)].resp.status = 200
           /\ chain[Len(chain)].resp.ctype = "text/html"
           /\ Decodable(chain[Len(chain)].resp) /\ ~AuthShaped(chain[Len(chain)])) =>
          ret[1].kind = "return" /\ ret[1].val \in {"json", "None"}

\* C11: the snapshot GET was answered with status 502 and text/html, and
\* send() raised InvalidContentTypeError without another transmission.
C11_Witness ==
    /\ CallDone("send") /\ Len(chain) = 1
    /\ chain[1].kind = "cmd" /\ chain[1].ect = "image/jpeg"
    /\ chain[1].resp.status = BadGateway /\ chain[1].resp.ctype = "text/html"
    /\ ret[1].kind = "raise" /\ ret[1].val = "InvalidContentTypeError"

\* C12: when logout() ends, returning or raising, the token and the lease
\* time are null and the HTTP client session is closed.
C12_Stated ==
    CallDone("logout") => token = Null /\ lease = NoLease /\ closed

\* What holds instead: logout() clears the token and closes the session
\* when it returns, and when it raises the token it found is still set and
\* only the lease is expired.
C12_LogoutReturn ==
    /\ (CallDone("logout") /\ ret[1].kind = "return") =>
          token = Null /\ lease = NoLease /\ closed
    /\ (CallDone("logout") /\ ret[1].kind = "raise") =>
          token = call.entryTok /\ token # Null /\ ~session_active

\* logout() raised because its Logout request failed.
C12_Raised ==
    /\ CallDone("logout") /\ ret[1].kind = "raise"
    /\ Len(chain) >= 1 /\ chain[Len(chain)].kind = "Logout"

\* C13: when login() makes a new session, a Login request is transmitted
\* after its Logout request whether or not the Logout request failed, and
\* login() does not end with the failure of the Logout request.
C13_Stated ==
    CallDone("login") =>
       /\ \A i \in Indices("Logout") : \E j \in Indices("Login") : j > i
       /\ (Len(chain) > 0 /\ ret[1].kind = "raise") => chain[Len(chain)].kind = "Login"

\* What holds instead: the Login request follows whenever logout(True)
\* returned, and when the send() of Logout raised, login() raises the same
\* exception and transmits nothing more.
C13_LogoutRaises ==
    /\ (At(1, "login", "after_logout") /\ running = 1 /\ ret[1].kind = "raise") =>
          ret[1].fn = "logout"
    /\ (CallDone("login") /\ Len(chain) > 0 /\ chain[Len(chain)].kind = "Logout") =>
          ret[1].kind = "raise"
    /\ (CallDone("login") /\ ret[1].kind = "return" /\ Count("Logout") > 0) =>
          chain[Len(chain)].kind = "Login"

\* login() raised the error of its Logout request and sent no Login.
C13_Raised ==
    /\ CallDone("login") /\ ret[1].kind = "raise"
    /\ Count("Logout") >= 1 /\ Count("Login") = 0

\* The transmissions made on port p, and the Logins that authenticated.
OnPort(p) == {i \in 1..Len(chain) : chain[i].port = p}
Authenticated ==
    {i \in Indices("Login") : chain[i].resp.status = 200 /\ chain[i].resp.body = "ok"}
Scheme(p) == IF p = HttpsPort THEN "yes" ELSE "no"

\* C14: a login() that starts with the port unknown transmits on port 443
\* first; it has transmitted on port 80 when it ends if and only if no Login
\* on port 443 authenticated; and when it returns True the port and the
\* scheme of the Host are those of the first Login that authenticated.
C14_Stated ==
    (CallDone("login") /\ call.entryPort = Null) =>
       /\ Len(chain) > 0 /\ chain[1].port = HttpsPort
       /\ OnPort(HttpPort) # {} <=> Authenticated \cap OnPort(HttpsPort) = {}
       /\ (ret[1].kind = "return" /\ ret[1].val = "True") =>
             /\ Authenticated # {}
             /\ port = chain[Smallest(Authenticated)].port
             /\ use_https = Scheme(port)

\* What holds instead: port 80 is tried if and only if the attempt on port
\* 443 returned False; when that attempt raised, login() raises the same
\* exception with the Host left on port 443.
C14_Probe ==
    (CallDone("login") /\ call.entryPort = Null) =>
       /\ Len(chain) > 0 /\ chain[1].port = HttpsPort
       /\ OnPort(HttpPort) # {} =>
             /\ Authenticated \cap OnPort(HttpsPort) = {}
             /\ \A i \in OnPort(HttpsPort) : chain[i].resp.body \notin {"TimeoutError"}
       /\ (OnPort(HttpPort) = {} /\ Authenticated = {}) =>
             ret[1].kind = "raise" /\ port = HttpsPort /\ use_https = "yes"
       /\ (ret[1].kind = "return" /\ ret[1].val = "True") =>
             /\ Authenticated # {}
             /\ port = chain[Smallest(Authenticated)].port
             /\ use_https = Scheme(port)

\* The attempt on port 443 raised and port 80 was not tried.
C14_NotProbed ==
    /\ CallDone("login") /\ call.entryPort = Null
    /\ ret[1].kind = "raise"
    /\ OnPort(HttpsPort) # {} /\ OnPort(HttpPort) = {}

\* The request of task t is outstanding on connection c: written, and the
\* reply awaited.
Outstanding(t, c) ==
    Depth(t) > 0 /\ Top(t).fn = "Baichuan.send" /\ Top(t).pc = "await_reply" /\ Top(t).conn = c

\* Task t is inside `async with self._mutex` of a Baichuan send().
InMutex(t) ==
    \E i \in 1..Depth(t) :
        /\ stack[t][i].fn = "Baichuan.send"
        /\ stack[t][i].pc \in {"locked", "connecting", "connected", "await_reply", "reply",
                               "timeout", "conn_error", "after_retry"}

RetryDue(t) == At(t, "Baichuan.send", "conn_error") /\ ~GivesUp(Top(t))
Retrying(t) == \E i \in 1..Depth(t) : stack[t][i].pc = "after_retry"
Written(cmd) == {i \in 1..Len(wire) : wire[i].cmd = cmd}

\* C16: after a ConnectionResetError/OSError on a request other than
\* Logout, the request is written again, or the call ends because the
\* connection could not be made again.
C16_Stated ==
    \A n \in 0..(3 * MaxBcCalls) :
        (RetryDue(1) /\ Len(wire) = n) ~> (Len(wire) > n \/ stack[1] = <<>>)

\* What holds instead: the send() that sends again is called inside
\* `async with self._mutex` and waits for the mutex its caller holds; no
\* request is written by a task that is sending again, and the task never
\* leaves that state.  Logout is never sent again.
C16_NeverResent ==
    /\ \A t \in Tasks :
          Retrying(t) =>
             /\ bc_mutex.owner = t
             /\ Top(t).pc \in {"after_retry", "entry", "encrypt", "wait_mutex", "after_nonce",
                                "after_send", "after_login"}
    /\ Cardinality(Written(CmdLogout)) <= ncalls
    /\ \A t \in Tasks : \A i \in 1..Depth(t) :
          stack[t][i].pc = "after_retry" => stack[t][i].cmd # CmdLogout

\* The send() that sends again waits for the mutex that its caller holds.
C16_Stuck ==
    /\ Retrying(1)
    /\ Suspended(1, "Baichuan.send", "wait_mutex")
    /\ bc_mutex.owner = 1 /\ 1 \in Waiting(bc_mutex)

\* The logout() of task t has just ended, and the last request written was a
\* Logout that got no reply.
LogoutEnded(t) == running = t /\ stack[t] = <<>> /\ ret[t].fn = "Baichuan.logout"
NoneLeft ==
    /\ ~logged_in
    /\ transport = Null /\ protocol = Null
    /\ nonce = Null /\ aes_key = Null /\ user_hash = Null /\ password_hash = Null

\* C17: when logout() ends, logged_in is false and the transport, the
\* protocol, the nonce, the AES key and the two digests are null, whether
\* the Logout command was answered, timed out, or failed with the
\* connection.
C17_LogoutClears == \A t \in Tasks : LogoutEnded(t) => NoneLeft

\* C17: logout() of a client that was logged in has ended, and its Logout
\* command, the last request written, was encrypted with a key and got no
\* reply.
C17_Witness ==
    /\ LogoutEnded(1) /\ ret[1].kind = "return"
    /\ Len(wire) > 0 /\ wire[Len(wire)].cmd = CmdLogout /\ wire[Len(wire)].key # Null
    /\ wire[Len(wire)].answer \in {"timeout", "reset"}

\* The login bodies that were answered on connection c before message i, and
\* the messages before i that timed out or lost the connection.
HandshakeBefore(i, c) ==
    {j \in 1..(i - 1) : wire[j].conn = c /\ wire[j].cmd = CmdLogin /\ wire[j].body
                          /\ wire[j].answer = "reply"}
FailedBefore(i) == {j \in 1..(i - 1) : wire[j].answer \in {"timeout", "reset"}}

\* C18: every command above 2 is written on a connection on which a login
\* body was answered before, after every earlier message that timed out or
\* lost the connection; and what it is encrypted with is the key of the
\* nonce of the connection it is written to.
C18_Stated ==
    \A i \in 1..Len(wire) :
        wire[i].cmd > 2 =>
           /\ HandshakeBefore(i, wire[i].conn) # {}
           /\ \A j \in FailedBefore(i) :
                 \E k \in HandshakeBefore(i, wire[i].conn) : k > j
           /\ wire[i].key # Null => wire[i].key = Key(wire[i].conn)

\* A command is written on a new connection, with no login on it and
\* encrypted with the key of the connection before.
C18_StaleKey ==
    \E i \in 1..Len(wire) :
        /\ wire[i].cmd > 2 /\ wire[i].key # Null
        /\ wire[i].key # Key(wire[i].conn)
        /\ \A j \in 1..(i - 1) : wire[j].conn = wire[i].conn => wire[j].cmd # CmdLogin

\* A command is written after a timeout with no login in between.
C18_NoLoginAfterTimeout ==
    \E i \in 1..Len(wire) :
        /\ wire[i].cmd > 2
        /\ \E j \in 1..(i - 1) : /\ wire[j].answer = "timeout"
                                   /\ \A k \in (j + 1)..(i - 1) : wire[k].cmd # CmdLogin

\* Message i is the request for the nonce, the login body; the two of them,
\* answered, are at i - 1 and i.
NonceRequest(i) ==
    /\ wire[i].cmd = CmdLogin /\ ~wire[i].body
    /\ wire[i].enc_type = "BC" /\ wire[i].message_class = "1465"
LoginBody(i) ==
    /\ wire[i].cmd = CmdLogin /\ wire[i].body
    /\ wire[i].enc_type = "BC" /\ wire[i].key = Null
Handshake(i) ==
    /\ i >= 2
    /\ NonceRequest(i - 1) /\ wire[i - 1].answer = "reply"
    /\ LoginBody(i) /\ wire[i].answer = "reply"
    /\ wire[i].conn = wire[i - 1].conn

\* Every command above 2 is written with logged_in true.
WrittenLoggedIn == \A i \in 1..Len(wire) : wire[i].cmd > 2 => wire[i].logged_in

\* The second send() of login() has returned to task t.
LoginReturned(t) == At(t, "Baichuan.login", "after_send") /\ ret[t].kind = "return"

\* C19: login() makes two round trips in this order: the header-only request
\* of cmd 1 with the legacy cipher and message class 1465, then the login
\* body of cmd 1 with the legacy cipher.  logged_in becomes true only in the
\* step that takes the result of the second round trip, and a login() that
\* raises leaves it as it was.  A command above 2 is written only with
\* logged_in true.
C19_Stated ==
    /\ [](\A t \in Tasks :
            LoginReturned(t) =>
               /\ Len(wire) >= 2
               /\ LoginBody(Len(wire)) /\ wire[Len(wire)].answer = "reply"
               /\ \E j \in 1..(Len(wire) - 1) : NonceRequest(j) /\ wire[j].answer = "reply")
    /\ [](WrittenLoggedIn)
    /\ [][/\ (logged_in' /\ ~logged_in) => \E t \in Tasks : LoginReturned(t)
          /\ \A t \in Tasks :
                (running = t /\ Depth(t) > 0 /\ Top(t).fn = "Baichuan.login"
                    /\ ret[t].kind = "raise") => logged_in' = logged_in]_vars

\* What holds: the two round trips, the nonce the key and the digests are
\* made of, and the step that sets logged_in, for a client used by one task
\* at a time.
C19_Handshake ==
    /\ [](\A t \in Tasks :
            LoginReturned(t) =>
               /\ Handshake(Len(wire))
               /\ nonce = wire[Len(wire)].conn
               /\ aes_key = Key(nonce)
               /\ user_hash = UserHash(nonce) /\ password_hash = PasswordHash(nonce))
    /\ [](\A i \in 1..Len(wire) :
            LoginBody(i) => i >= 2 /\ NonceRequest(i - 1) /\ wire[i - 1].answer = "reply")
    /\ [](WrittenLoggedIn)
    /\ [][/\ (logged_in' /\ ~logged_in) => \E t \in Tasks : LoginReturned(t)
          /\ \A t \in Tasks :
                (running = t /\ Depth(t) > 0 /\ Top(t).fn = "Baichuan.login"
                    /\ ret[t].kind = "raise") => logged_in' = logged_in]_vars

\* A command above 2 is written on a new connection after the logout() of
\* the other task has set logged_in to false.
C19_WrittenLoggedOut ==
    \E i \in 1..Len(wire) :
        /\ wire[i].cmd > 2 /\ ~wire[i].logged_in
        /\ \E j \in 1..(i - 1) : wire[j].cmd = CmdLogout /\ wire[j].conn # wire[i].conn

\* C20, as stated: for both header lengths and both encryption types of the
\* request the tag alone selects the scheme: 01dd or 12dd the legacy
\* cipher, 02dd or 03dd AES, 00dd plaintext, and any other tag raises
\* InvalidContentTypeError.
ByTag(tag) ==
    IF tag \in {"01dd", "12dd"} THEN "legacy"
    ELSE IF tag \in {"02dd", "03dd"} THEN "aes"
    ELSE IF tag = "00dd" THEN "plain"
    ELSE "InvalidContentTypeError"

C20_Stated == dec.n > 0 => dec.out = ByTag(dec.tag)

\* C20: for a reply with a header of 20 bytes the tag selects the scheme as
\* stated, whatever the encryption type of the request.  For a reply with a
\* header of 24 bytes the tag is not looked at: the scheme is the one of the
\* request, the legacy cipher for BC and AES for AES (the default, which
\* _push_callback uses), and no tag raises InvalidContentTypeError.
C20_Decrypt ==
    dec.n > 0 =>
       /\ dec.len_header = ShortHeader => dec.out = ByTag(dec.tag)
       /\ dec.len_header = LongHeader =>
             dec.out = (IF dec.enc_type = "BC" THEN "legacy" ELSE "aes")

\* C20: a reply with a header of 20 bytes and the tag 02dd to a request sent
\* with the legacy cipher is decrypted with AES.
C20_Witness ==
    /\ dec.n > 0 /\ dec.len_header = ShortHeader /\ dec.tag = "02dd"
    /\ dec.enc_type = "BC" /\ dec.out = "aes"

\* A step is a call of the mapper method name.
Called(name) == last'.n = last.n + 1 /\ last'.name = name
\* The channel the element i of the last call was mapped for.
ChannelOf(i) ==
    IF last.name = "map_channels_json_response" THEN last.chs[i] ELSE last.channel
\* The last call went through the elements of a response array.
MappedBatch ==
    \/ last.name = "map_channel_json_response"
    \/ last.name = "map_channels_json_response" /\ Len(last.json_data) = Len(last.chs)
\* Element i of the last call is well formed and without error code.
Good(i) == last.json_data[i].code = 0 /\ last.json_data[i].shape = "ok"

\* C21: map_channels_json_response, called with a response array whose
\* length differs from the length of the channel list, leaves every entry of
\* the per-channel caches as it was.
C21_LengthMismatch ==
    [][(Called("map_channels_json_response") /\ Len(last'.json_data) # Len(last'.chs))
          => cache' = cache]_vars

\* C21, witness: a call with one element too few or too many, in which a
\* well-formed element came that a mapping would have stored.
C21_Witness ==
    /\ last.name = "map_channels_json_response"
    /\ Len(last.json_data) # Len(last.chs)
    /\ \E i \in 1..Len(last.json_data) : Good(i) /\ last.json_data[i].cmd = "GetOsd"
    /\ cache = NoCache

\* C22: when the mapping of an element of a response array raises, or the
\* element has the error code 1, no exception leaves the mapper, every
\* element of the array is gone through, and the element that follows is in
\* the cache afterwards.
C22_BatchGoesOn ==
    MappedBatch =>
        /\ ~Propagated(last.hows)
        /\ Len(last.hows) = Len(last.json_data)
        /\ \A i \in 1..Len(last.json_data) :
              (i > 1 /\ i = Len(last.json_data) /\ Good(i)
                 /\ last.hows[i - 1] \in {"raised", "error_code"})
              => cache[ChannelOf(i)][DictOf[last.json_data[i].cmd]] = last.json_data[i].val

\* C22, witness: the first element raised and the second one was stored.
C22_Witness ==
    /\ last.name = "map_channel_json_response"
    /\ Len(last.json_data) = 2
    /\ last.hows[1] = "raised"
    /\ last.json_data[2].cmd = "GetMdState"
    /\ cache[last.channel]["motion_detection_states"] = "b"

\* The commands whose value reports a channel.
SelfReporting ==
    {"GetEvents", "GetAiState", "GetOsd", "GetEnc", "GetIsp", "GetWhiteLed", "GetRtspUrl"}

\* C23, as stated: an element that reports another channel than the
\* requested one changes no cache entry.
C23_Stated ==
    [][(/\ Called("map_channel_json_response")
        /\ Len(last'.json_data) = 1
        /\ last'.json_data[1].code = 0
        /\ last'.json_data[1].shape = "ok"
        /\ last'.json_data[1].cmd \in SelfReporting
        /\ last'.json_data[1].channel # last'.channel)
          => cache' = cache]_vars

\* C23, what the mapper does: the GetOsd element with the channel 1 in its
\* value is stored as the OSD settings of the requested channel 0.
C23_Stored ==
    /\ last.name = "map_channel_json_response"
    /\ last.channel = 0
    /\ last.json_data = <<Elem("GetOsd", 0, "ok", 1, "a")>>
    /\ last.hows = <<"mismatch">>
    /\ cache[0]["osd_settings"] = "a"

\* C27: once the channel list is not empty, no call of the mapper changes it.
C27_ChannelsStable == [][Len(channels) > 0 => channels' = channels]_vars

\* C27, witness: a Getchannelstatus answer with both channels online was
\* mapped by a Host whose list has the channel 0 only, and the list is as it
\* was.
C27_Witness ==
    /\ last.n = 2
    /\ last.name = "map_host_json_response"
    /\ Len(last.json_data) > 0
    /\ last.json_data[1].cmd = "GetChannelstatus"
    /\ last.json_data[1].code = 0
    /\ last.json_data[1].status = AllOnline
    /\ last.hows[1] = "mapped"
    /\ channels = <<0>>

\* The commands of a request body, and the response array of the last call
\* has an element of the command.
Cmds(body) == {body[i].cmd : i \in 1..Len(body)}
InResponse(json_data, cmd) == \E i \in 1..Len(json_data) : json_data[i].cmd = cmd
\* The running coroutine hands its first body to send() in this step.
Requests(fn) == At(1, fn, "entry") /\ sent = <<>> /\ Len(sent') = 1
\* The body asks for want and not for other, for the channels there are.
Asks(body, want, other) ==
    /\ other \notin Cmds(body)
    /\ \A i \in 1..Len(channels) : Req(want, channels[i]) \in {body[j] : j \in 1..Len(body)}
\* The family a command of get_state belongs to.
FamiliesOf(cmd) == {f \in Families : cmd \in {LegacyCmd[f], V20Cmd[f]}}

\* C24: when get_host_data() has got both responses, the version of each
\* family is 0 if the second response has no element of the family's V20
\* command and 1 or more if it has one, and the get_states() or get_state()
\* that comes next asks for the V20 command in the second case and for the
\* legacy command in the first.
C24_Discovery ==
    /\ [](last.name = "get_host_data" =>
            \A f \in Families :
                IF InResponse(last.json_data, V20Cmd[f])
                THEN api_version[f] >= 1 ELSE api_version[f] = 0)
    /\ [][(last.name = "get_host_data" /\ channels # <<>>) =>
            /\ Requests("get_states") =>
                  \A f \in Families :
                      IF InResponse(last.json_data, V20Cmd[f])
                      THEN Asks(sent'[1], V20Cmd[f], LegacyCmd[f])
                      ELSE Asks(sent'[1], LegacyCmd[f], V20Cmd[f])
            /\ Requests("get_state") =>
                  \A f \in FamiliesOf(Top(1).args.cmd) :
                      IF InResponse(last.json_data, V20Cmd[f])
                      THEN Asks(sent'[1], V20Cmd[f], LegacyCmd[f])
                      ELSE Asks(sent'[1], LegacyCmd[f], V20Cmd[f])]_vars

\* C24, witness: get_host_data() asked for GetEmailV20 and GetFtpV20, the
\* device answered the first only, and the call returned with the email
\* version at 1 and the ftp version at 0.
C24_Witness ==
    /\ last.name = "get_host_data"
    /\ ret[1] = HostReturned("get_host_data")
    /\ Len(sent) = 2
    /\ {"GetEmailV20", "GetFtpV20"} \subseteq Cmds(sent[2])
    /\ InResponse(last.json_data, "GetEmailV20")
    /\ ~InResponse(last.json_data, "GetFtpV20")
    /\ api_version["email"] = 1
    /\ api_version["ftp"] = 0

\* The last response mapped was one GetAbility element that reports the
\* version v for email.
AbilityMapped(v) ==
    /\ last.name = "get_state"
    /\ Len(last.json_data) = 1
    /\ last.json_data[1].cmd = "GetAbility"
    /\ last.json_data[1].code = 0
    /\ "email" \in last.json_data[1].reported
    /\ last.json_data[1].ver = v

\* C25: after a GetAbility response with email.ver 1 is mapped, get_state
\* for GetEmail or GetEmailV20 and get_states ask for GetEmailV20 and not
\* for GetEmail; after one with email.ver 0 they ask for GetEmail and not for
\* GetEmailV20.
C25_EmailVersion ==
    /\ [](\A v \in 0..1 : AbilityMapped(v) => api_version["email"] = v)
    /\ [][\A v \in 0..1 :
            (/\ AbilityMapped(v)
             /\ channels # <<>>
             /\ \/ Requests("get_states")
                \/ Requests("get_state") /\ Top(1).args.cmd \in {"GetEmail", "GetEmailV20"})
            => IF v = 0 THEN Asks(sent'[1], "GetEmail", "GetEmailV20")
               ELSE Asks(sent'[1], "GetEmailV20", "GetEmail")]_vars

\* C25, witness: GetAbility with email.ver 0 was mapped and the
\* get_state("GetEmailV20") after it asked for GetEmail (the request got no
\* answer).
C25_Witness ==
    /\ AbilityMapped(0)
    /\ channels # <<>>
    /\ ret[1] = HostRaised("get_state", "NoDataError")
    /\ Len(sent) = 1
    /\ Cmds(sent[1]) = {"GetEmail"}

\* C26, as stated: a version goes down only in the probe of get_host_data.
C26_Stated ==
    [][\A f \in Families :
          api_version'[f] < api_version[f] => At(1, "get_host_data", "channels")]_vars

\* The step maps a GetAbility element that gives the family f the version
\* api_version has afterwards.
AbilityGives(f) ==
    /\ last'.n = last.n + 1
    /\ last'.name \in {"map_host_json_response", "get_state"}
    /\ \E i \in 1..Len(last'.json_data) :
          LET e == last'.json_data[i] IN
          /\ e.cmd = "GetAbility"
          /\ e.code = 0
          /\ \/ f \in e.reported /\ api_version'[f] = e.ver
             \/ /\ f \in {"ftp", "rec", "alarm"}
                /\ \E c \in 1..Len(e.chn) : api_version'[f] = VerOf(e.chn[c], f)

\* C26: a version goes down only when a GetAbility response is mapped, to
\* the version that response reports, and in the probe of get_host_data, to
\* 0, when the response has no element of the V20 command.
C26_Lowered ==
    [][\A f \in Families :
          api_version'[f] < api_version[f] =>
              \/ AbilityGives(f)
              \/ /\ At(1, "get_host_data", "channels")
                 /\ last'.name = "get_host_data"
                 /\ ~InResponse(last'.json_data, V20Cmd[f])
                 /\ api_version'[f] = 0]_vars

\* C26, witness: the first call on a new Host is get_state("GetAbility"),
\* the response reports the version 0, and the email version went from 1 to
\* 0.
C26_Witness ==
    /\ ncalls = 1
    /\ AbilityMapped(0)
    /\ api_version["email"] = 0

\* A setter has ended raising e.
SetterRaised(fn, e) ==
    stack[1] = <<>> /\ ret[1].kind = "raise" /\ ret[1].fn = fn /\ ret[1].val = e

\* C28 as stated: a setter that raises InvalidParameterError or
\* NotSupportedError has transmitted no request.
C28_Stated ==
    \A fn \in SetterFns, e \in {"InvalidParameterError", "NotSupportedError"} :
        SetterRaised(fn, e) => sent = <<>>

\* C28: set_time with a date format that is not allowed raises
\* InvalidParameterError after the two requests of get_host_data() were
\* sent.
C28_Fetched ==
    /\ SetterRaised("set_time", "InvalidParameterError")
    /\ Len(sent) = 2
    /\ sent[1] = HostBody

\* send_setting has raised e for a response array with a first element.
SettingRaised(e) ==
    /\ ret[1].kind = "raise" /\ ret[1].fn = "send_setting" /\ ret[1].val = e
    /\ last.name = "send_setting"
    /\ last.json_data # <<>>

\* C29 as stated: for a first element with a code that is not 0, or with
\* code 0 and a value.rspCode that is not 200, send_setting raises ApiError,
\* and it raises UnexpectedDataError only for an element with code 0 (or
\* without "code").
C29_Stated ==
    \A e \in {"ApiError", "UnexpectedDataError"} :
        SettingRaised(e) =>
            LET first == last.json_data[1] IN
            /\ first.shape # "nocode" /\ first.code # 0 => e = "ApiError"
            /\ first.code = 0 /\ first.shape = "ok" /\ first.rspCode # 200 => e = "ApiError"
            /\ e = "UnexpectedDataError" => first.shape = "nocode" \/ first.code = 0

\* C29: a first element with code 1 and no "value" ends send_setting with
\* UnexpectedDataError.
C29_Unexpected ==
    /\ SettingRaised("UnexpectedDataError")
    /\ last.json_data[1] = SetElem(1, "novalue", 0)

\* C30: the body set_sensitivity(channel, value, preset) hands to
\* send_setting is one SetAlarm command for the channel whose "sens" has the
\* presets the Host held, with the sensitivity 51 - value for the entry
\* whose id is preset (for every entry when preset is None) and the
\* sensitivity held for the others; send_setting transmits that body.
C30_Sensitivity ==
    [][/\ At(1, "set_sensitivity", "entry") /\ Depth(1)' = 2 =>
            LET a == Top(1).args
                held == cache[a.channel]["alarm_settings"]
                body == stack'[1][2].args.body
            IN  /\ stack'[1][2].fn = "send_setting"
                /\ Len(body) = 1
                /\ body[1].cmd = "SetAlarm" /\ body[1].channel = a.channel
                /\ Len(body[1].param) = Len(held)
                /\ \A i \in 1..Len(held) :
                      /\ body[1].param[i].id = held[i].id
                      /\ body[1].param[i].sensitivity =
                            IF a.b = NoInt \/ a.b = held[i].id THEN 51 - a.a
                            ELSE held[i].sensitivity
       /\ At(1, "send_setting", "entry") => sent' = Append(sent, Top(1).args.body)]_vars

\* C30: set_sensitivity(0, 50, 1) on the presets of a new device has sent
\* SetAlarm with the sensitivity 10 kept for preset 0 and 1 for preset 1.
C30_Witness ==
    /\ sent # <<>>
    /\ sent[1] = <<SetReq("SetAlarm", 0, <<Preset(0, 10), Preset(1, 1)>>)>>

\* C31: for a dictionary with a valid date and time,
\* datetime_to_reolink_time(reolink_time_to_datetime(t)) equals t.
C31_RoundTrip ==
    conv.done /\ ~conv.datetime.error => conv.back = conv.time

\* C31, witness: the last second of 29 February 2024 was converted to a
\* datetime with month 2 and minute 59 and back.
C31_Witness ==
    /\ conv.done
    /\ conv.time = ReolinkTime(2024, 2, 29, 23, 59, 59)
    /\ conv.datetime = DateTime(2024, 2, 29, 23, 59, 59)
    /\ conv.back = conv.time

\* A step of a call in progress that waits for no answer of the device: of
\* the coroutine of a task, or a mutex handed to a waiter.
Advance ==
    \E t \in Tasks :
        \/ Return(t) \/ SendEntry(t) \/ SendAfterLogin(t) \/ SendParam(t) \/ SendReadBody(t)
        \/ SendClassify(t) \/ SendAfterRetry(t) \/ LoginEntry(t) \/ LoginAfterTryPorts(t)
        \/ LoginCheck(t) \/ LoginAfterLogout(t) \/ LoginAfterSend(t) \/ TryPortsFirst(t)
        \/ TryPortsAfterFirst(t) \/ TryPortsAfterSecond(t) \/ LogoutEntry(t) \/ LogoutBody(t)
        \/ LogoutAfterSend(t) \/ LogoutClosed(t) \/ SubEntry(t) \/ SubMutexGranted(t)
        \/ SendMutexGranted(t) \/ LoginMutexGranted(t) \/ LogoutMutexGranted(t)
        \/ SendRequest(t)

\* C32: concurrent send(), login(), logout() and subscription_send() calls
\* never deadlock: no task waits for a mutex it holds, the holder of the
\* outbound mutex does not wait for the login mutex, a task whose call has
\* ended holds no mutex and waits for none, and while a call is in progress
\* and no request waits for its answer, some step of a call can be taken.
C32_NoDeadlock ==
    /\ \A t \in Tasks :
          /\ login_mutex.owner = t => t \notin Waiting(login_mutex)
          /\ send_mutex.owner = t => t \notin Waiting(send_mutex) \cup Waiting(login_mutex)
          /\ stack[t] = <<>> =>
                /\ login_mutex.owner # t /\ send_mutex.owner # t
                /\ t \notin Waiting(login_mutex) \cup Waiting(send_mutex)
    /\ (\E t \in Tasks : Depth(t) > 0) /\ (\A t \in Tasks : ~InFlight(t)) => ENABLED Advance

\* C32, witness: a task inside login() holds the login mutex and waits for
\* the outbound mutex, which the other task holds for a request in flight.
C32_Witness ==
    \E t, u \in Tasks :
        /\ t # u
        /\ login_mutex.owner = t /\ t \in Waiting(send_mutex)
        /\ send_mutex.owner = u /\ InFlight(u)

\* C33 as stated: every Baichuan call that has begun ends, its send()
\* returning or raising.
C33_Stated == (stack[1] # <<>>) ~> (stack[1] = <<>>)

\* C33: the send() that sends again after a lost connection waits for the
\* mutex that the failed attempt of the same task holds, and nothing can
\* happen any more: no step of the task and no event of the connection is
\* enabled.
C33_NothingEnabled ==
    /\ Suspended(1, "Baichuan.send", "wait_mutex")
    /\ \E i \in 1..(Depth(1) - 1) :
          stack[1][i].fn = "Baichuan.send" /\ stack[1][i].pc = "after_retry"
    /\ bc_mutex.owner = 1
    /\ ~ENABLED NextBcSeq

\* Task t transmits a command that is neither Login nor Logout.
TransmitsCommand(t) ==
    /\ At(t, "send", "request")
    /\ Top(t).cmd \notin {"Login", "Logout"}
    /\ stack'[t] # <<>>
    /\ stack'[t][Len(stack'[t])].pc = "await_response"

\* C34: a command other than Login and Logout is transmitted with a token,
\* and not with one for which the Host has transmitted Logout or which it
\* has cleared.
C34_LiveToken ==
    [][\A t \in Tasks :
          TransmitsCommand(t) =>
              /\ Top(t).ptok \notin {NoTok, NullLiteral}
              /\ Top(t).ptok \notin retired]_vars

\* C34, witness: a task waits for the outbound mutex with its token in the
\* parameters of a command, while the other task, which holds the mutex,
\* has its own command in flight with the same token.
C34_Witness ==
    \E t, u \in Tasks :
        /\ Suspended(t, "send", "wait_send_mutex")
        /\ Top(t).cmd \notin {"Login", "Logout"} /\ Top(t).ptok = token /\ token # Null
        /\ InFlight(u) /\ Top(u).fn = "send" /\ Top(u).cmd \notin {"Login", "Logout"}
        /\ retired # {}

\* The message before i that asked for a nonce on the connection of message
\* i and was answered last, 0 when there is none.
NonceBefore(i) ==
    LET js == {j \in 1..(i - 1) : /\ NonceRequest(j) /\ wire[j].answer = "reply"
                                  /\ wire[j].conn = wire[i].conn}
    IN  IF js = {} THEN 0 ELSE CHOOSE j \in js : \A k \in js : k <= j

\* C35, as stated: whatever the interleaving of the tasks, a login body is
\* written on a connection on which a nonce was issued, with the digests of
\* the nonce issued last on it, and while logged_in is true the stored nonce,
\* AES key and digests are made of one nonce.
C35_Stated ==
    /\ \A i \in 1..Len(wire) :
          (wire[i].cmd = CmdLogin /\ wire[i].body) =>
              /\ NonceBefore(i) # 0
              /\ wire[i].hash = UserHash(wire[NonceBefore(i)].conn)
    /\ logged_in =>
          /\ nonce # Null
          /\ aes_key = Key(nonce)
          /\ user_hash = UserHash(nonce) /\ password_hash = PasswordHash(nonce)

\* Two logins overlap: the nonce request of one task is answered on a new
\* connection after the other task was given the nonce of the connection
\* before, and the login body of that task, which follows on the new
\* connection, carries the digests of the earlier nonce.
C35_StaleDigest ==
    \E i \in 2..Len(wire) :
        /\ wire[i].cmd = CmdLogin /\ wire[i].body
        /\ NonceBefore(i) = i - 1
        /\ wire[i].hash # UserHash(wire[i].conn)
        /\ \E j \in 1..(i - 2) :
              NonceRequest(j) /\ wire[j].answer = "reply"
                 /\ wire[i].hash = UserHash(wire[j].conn)

\* Connection c is open: neither closed by the client nor lost.
Open(c) == ~protocols[c].closing /\ ~protocols[c].lost

\* Message i is a command above 2 that was written next after a Logout, on
\* another connection than the Logout.
AfterLogout(i) ==
    /\ i >= 2
    /\ wire[i].cmd > 2
    /\ wire[i - 1].cmd = CmdLogout
    /\ wire[i - 1].conn # wire[i].conn

\* C36, as stated: whatever the interleaving of logout() with the send() of
\* another task, every open connection is the one the client refers to, and
\* a command above 2 that follows a Logout on a new connection (the send()
\* that was behind the Logout at the mutex) is written after a login on that
\* connection and its send() does not end with the AttributeError of a
\* protocol that is None.
C36_Stated ==
    /\ \A c \in 1..Len(protocols) : Open(c) => transport = c /\ protocol = c
    /\ \A t \in Tasks :
          (Len(wire) > 0 /\ AfterLogout(Len(wire))) =>
              ~(ret[t].kind = "raise" /\ ret[t].val = "AttributeError"
                   /\ ret[t].fn = "Baichuan.send" /\ ret[t].cmd > 2)
    /\ \A i \in 1..Len(wire) :
          AfterLogout(i) => HandshakeBefore(i, wire[i].conn) # {}

\* logout() of one task has cleared the references while the command of the
\* other task, written on a new connection without login, was awaited; the
\* connection is still open, and the send() of that command has ended with
\* AttributeError.
C36_Orphaned ==
    /\ transport = Null /\ protocol = Null /\ ~logged_in
    /\ \E c \in 1..Len(protocols) :
          /\ Open(c)
          /\ \E i \in 1..Len(wire) :
                AfterLogout(i) /\ wire[i].conn = c /\ HandshakeBefore(i, c) = {}
    /\ AfterLogout(Len(wire))
    /\ \E t \in Tasks :
          ret[t].kind = "raise" /\ ret[t].val = "AttributeError"
             /\ ret[t].fn = "Baichuan.send" /\ ret[t].cmd > 2

\* The set commands of the recording family among the bodies sent.
RecSent == {i \in 1..Len(sent) : sent[i][1].cmd \in {"SetRec", "SetRecV20"}}

\* set_recording has ended, and not because the channel is not connected or
\* has no recording settings.
RecordingEnded ==
    /\ stack[1] = <<>>
    /\ ret[1].kind # "none" /\ ret[1].fn = "set_recording"
    /\ ~(ret[1].kind = "raise"
            /\ ret[1].val \in {"InvalidParameterError", "NotSupportedError"})

\* C37, as stated: set_recording(channel, enable) for a connected channel
\* with cached recording settings hands one command to send_setting, SetRec
\* with the version 0 and SetRecV20 otherwise, with the enable field as
\* requested; send_setting transmits it, and it is the one set command
\* transmitted when set_recording ends.
C37_Stated ==
    /\ [][/\ (/\ At(1, "set_recording", "entry")
              /\ InChannels(Top(1).args.channel)
              /\ cache[Top(1).args.channel]["recording_settings"] # Absent) =>
                 /\ Depth(1)' = 2
                 /\ stack'[1][2].fn = "send_setting"
                 /\ stack'[1][2].args.body =
                       <<SetReq(IF api_version["rec"] = 0 THEN "SetRec" ELSE "SetRecV20",
                                Top(1).args.channel, EnableField(Top(1).args.enable))>>
          /\ At(1, "send_setting", "entry") => sent' = Append(sent, Top(1).args.body)]_vars
    /\ [](RecordingEnded => Cardinality(RecSent) = 1)

\* set_recording(channel, True) with the version 0 has returned with nothing
\* sent; the cached block of a channel says enabled and its flag, mapped
\* from the GetRec response before, says it is not.
C37_NothingSent ==
    /\ stack[1] = <<>>
    /\ ret[1] = HostReturned("set_recording")
    /\ api_version["rec"] = 0
    /\ sent = <<>>
    /\ \E c \in Chans :
          cache[c]["recording_settings"] = "1" /\ cache[c]["recording_enabled"] = "False"

\* set_ntp is at its checks of the arguments, with NTP settings to write to.
NtpChecking ==
    /\ ~host_settings.ntp.none
    /\ \/ At(1, "set_ntp", "entry")
       \/ At(1, "set_ntp", "got") /\ ret[1].kind # "raise"

\* C38, as stated: set_ntp with an interval, and with no port or a port in
\* 1..65535, raises InvalidParameterError exactly when the interval is not
\* in 60..65535, and else hands SetNtp with that interval to send_setting.
C38_Stated ==
    [][(/\ NtpChecking
        /\ Top(1).args.b # NoInt
        /\ Top(1).args.a = NoInt \/ Top(1).args.a \in 1..65535) =>
           IF Top(1).args.b \in 60..65535
           THEN /\ Depth(1)' = 2
                /\ stack'[1][2].fn = "send_setting"
                /\ stack'[1][2].args.body[1].cmd = "SetNtp"
                /\ stack'[1][2].args.body[1].param.interval = Top(1).args.b
           ELSE /\ stack'[1] = <<>>
                /\ ret'[1] = HostRaised("set_ntp", "InvalidParameterError")]_vars

\* set_ntp(port=123, interval=5) was accepted, so that the NTP settings hold
\* the interval 5, and set_ntp with an interval and no port has ended with
\* TypeError.
C38_PortTested ==
    /\ stack[1] = <<>>
    /\ ret[1] = HostRaised("set_ntp", "TypeError")
    /\ host_settings.ntp.interval = 5

\* send_setting has raised e into the setter fn, which has not gone on yet.
SettingFailed(fn, e) ==
    /\ At(1, fn, "sent")
    /\ ret[1] = HostRaised("send_setting", e)

\* C39, as stated: when send_setting raises into set_push or set_recording,
\* because the request failed or the device rejected it, the settings
\* blocks and the enabled flags of the channel are what they were before
\* the call.
C39_Stated ==
    \A fn \in {"set_push", "set_recording"},
       e \in {"NoDataError", "InvalidContentTypeError", "ApiError", "UnexpectedDataError"} :
        SettingFailed(fn, e) => cache[Top(1).args.channel] = Top(1).args.was

\* The device has rejected the SetPush or SetPushV20 of set_push(channel,
\* True): the cached block of the channel says enabled, the block before the
\* call and the flag say it is not.
C39_BlockChanged ==
    /\ SettingFailed("set_push", "ApiError")
    /\ Top(1).args.enable
    /\ Top(1).args.was["push_settings"] = "0"
    /\ cache[Top(1).args.channel]["push_settings"] = "1"
    /\ cache[Top(1).args.channel]["push_enabled"] = "False"

\* _login_try_ports has ended with Logins transmitted on port 443 and on
\* port 80, none of which authenticated.
BothProbesFailed ==
    /\ CallDone("login") /\ call.entryPort = Null
    /\ OnPort(HttpsPort) # {} /\ OnPort(HttpPort) # {}
    /\ Authenticated = {}

\* C40: after both probes failed the Host is on port 80 with HTTP; a Host
\* on port 80 stays there with its scheme, its login() does not call
\* _login_try_ports, and every transmission of a call that began on port 80
\* goes to port 80.
C40_KeepsHttp ==
    /\ [](BothProbesFailed => port = HttpPort /\ use_https = "no")
    /\ [](call.entryPort = HttpPort =>
             /\ \A i \in 1..Len(chain) : chain[i].port = HttpPort
             /\ \A i \in 1..Depth(1) : stack[1][i].fn # "try_ports")
    /\ [][port = HttpPort => port' = HttpPort /\ use_https' = use_https]_vars

\* C40, witness: login() on a new Host has returned False after a Login on
\* port 443 and a Login on port 80 that the device refused.
C40_Witness ==
    /\ BothProbesFailed
    /\ ret[1].kind = "return" /\ ret[1].val = "False"
    /\ port = HttpPort /\ use_https = "no"

====
